---- MODULE Spec2Model ----
(***************************************************************************)
(* LDAR-Sim: the daily simulation engine (LdarSim.update and its steps),   *)
(* the OGI company and crew that the engine dispatches, the operator, the  *)
(* repair sweep, reporting and finalize.                                    *)
(*                                                                         *)
(* Clock.  state['t'].current_date is a datetime; it is modelled as the    *)
(* number of minutes since midnight of the first simulated day.  Crews     *)
(* move the time of day (replace(hour=..), += timedelta(minutes=..)) and   *)
(* TimeCounter.next_day adds one day without touching the time of day.     *)
(*                                                                         *)
(* Field names.  LdarSim.repair_leaks reads the tagging date and company   *)
(* of a leak as date_found / found_by_company, OGI_crew.visit_site writes  *)
(* them as date_tagged / tagged_by_company.  They are one field each in    *)
(* the model: date_tagged and tagged_by_company.                           *)
(*                                                                         *)
(* Two specifications.  Spec is the engine with the OGI company of         *)
(* model_code; SpecTag is the component-scale branch of the default        *)
(* sensor (detect_emissions) with update_tag, run by crews of two          *)
(* companies over the same state.                                          *)
(***************************************************************************)
EXTENDS Integers, Sequences, FiniteSets, TLC

\* ------------------------------------------------------------------ bounds
MaxLeaks == 2             \* cap on the number of leaks ever created
Timesteps == 3            \* parameters['timesteps']: simulated days
MaxDelay == 1             \* repair_delay and reporting_delay range over 0..MaxDelay
MaxRate == 1              \* leak rates range over 0..MaxRate
MonthLen == 2             \* days per month of the model's calendar
MonthsPerYear == 2        \* months per year of the model's calendar

\* ------------------------------------------------------- program constants
MinutesPerHour == 60
HoursPerDay == 24
DaysPerWeek == 7
MaxWorkday == 8           \* 'max_workday': 8
LastHour == 23            \* replace(hour=23) of an unripened day

MinutesPerDay == HoursPerDay * MinutesPerHour
YearLen == MonthLen * MonthsPerYear

NoDate == -1              \* None in a date field
NoDelay == -1             \* None in repair_delay
NoCrew == 0               \* None in tagged_by_crew

SiteIds == {1, 2}          \* facility_ID of the facilities
NSites == Cardinality(SiteIds)
Rates == 0..MaxRate
OffsiteTimes == {30, 90}  \* state['offsite_times']: minutes
SurveyTimes == {120, 420} \* site['OGI_time']: minutes
MinInts == {0, 1}         \* site['OGI_min_int']: days
Frequencies == {1, 2}     \* site['OGI_RS']: surveys per year

\* ----------------------------------------------------------------- clock
DateOf(dt) == dt \div MinutesPerDay
HourOf(dt) == (dt % MinutesPerDay) \div MinutesPerHour
\* datetime.replace(hour=h): the minute of the hour is kept
ReplaceHour(dt, h) ==
    DateOf(dt) * MinutesPerDay + h * MinutesPerHour + (dt % MinutesPerHour)
\* datetime.replace(hour=h, minute=0, second=0)
ReplaceHourMin0(dt, h) == DateOf(dt) * MinutesPerDay + h * MinutesPerHour
\* (a - b).days of a timedelta: the floor of the difference in days
TimedeltaDays(a, b) == (a - b) \div MinutesPerDay

VARIABLES
    t,            \* state['t'].current_timestep
    now,          \* state['t'].current_date, in minutes
    startDoy,     \* day of the year of the start date (0 = 1 January)
    startWeekday, \* weekday of the start date (0 = Monday)
    pc,           \* position of the engine inside the daily step
    parameters,   \* the program and method parameters of the run
    sites,        \* state['sites']: the list of site records, in list order
    leaks,        \* state['leaks']: the list of leak records
    tags,         \* state['tags']: indices into leaks, in list order
    active_leaks, \* LdarSim.active_leaks: indices into leaks
    crews,        \* per OGI crew: rollover and worked_today
    ci,           \* the crew whose work_a_day is running
    allowed_end_time, \* OGI_crew.allowed_end_time of the running crew
    x_LDAR,       \* position of the running crew inside its day
    current_x,    \* state['current_x']
    dd,           \* deployment_days[site cell, t] of the current day
    timeseries,   \* the timeseries dictionary
    campaigns,    \* state['campaigns']: the tags counted per subtype and company
    dayLog,       \* the steps the current daily step has run, in order
    flags,        \* state['flags']: the sites currently flagged, in list order
    companies,    \* per method company: candidate_flags and site_watchlist
    gen_files,    \* the generator folder: the pregen_<i>_<j>.p files present
    simulations,  \* build_sims: the list of simulation descriptors built so far
    fingerprint,  \* the generator folder: the sites.p and params.p files
    open_files,   \* the generator files open at the moment, with mode and process
    pool,         \* mp.Pool: the state of each task of starmap
    res           \* the list starmap returned

vars == << t, now, startDoy, startWeekday, pc, parameters, sites, leaks, tags,
           active_leaks, crews, ci, allowed_end_time, x_LDAR, current_x, dd,
           timeseries, campaigns, dayLog, flags, companies, gen_files,
           simulations, fingerprint, open_files, pool, res >>

\* the variables of the methods package and of build_sims, which the engine
\* of model_code and the sensor leave alone
restVars == << flags, companies, gen_files, simulations, fingerprint,
              open_files, pool, res >>

\* calendar of the clock's date
DayOfYear(dt) == (startDoy + DateOf(dt)) % YearLen
MonthOf(dt) == (DayOfYear(dt) \div MonthLen) + 1
DayOfMonth(dt) == (DayOfYear(dt) % MonthLen) + 1
Weekday(dt) == (startWeekday + DateOf(dt)) % DaysPerWeek

\* ------------------------------------------------------------------ Init
\* site['lon']: the facilities lie on a line, 21 km apart, from the home base
SiteX(id) == 21 * id

\* a site record after LdarSim.__init__ and OGI_company.__init__
NewSite(id, time, min_int, rs, label, n0, cell) ==
    [ facility_ID |-> id, x |-> SiteX(id), cell |-> cell, label |-> label,
      OGI_time |-> time, OGI_min_int |-> min_int, OGI_RS |-> rs,
      total_emissions_kg |-> 0, active_leaks |-> 0, repaired_leaks |-> 0,
      initial_leaks |-> n0, n_new_leaks |-> 0,
      OGI_t_since_last_LDAR |-> 0, OGI_surveys_conducted |-> 0,
      attempted_today |-> FALSE, surveys_done_this_year_OGI |-> 0,
      OGI_missed_leaks |-> 0 ]

\* a leak record as LdarSim.__init__ and LdarSim.add_leaks create it
NewLeak(fid, rate, date) ==
    [ facility_ID |-> fid, rate |-> rate, status |-> "active",
      tagged |-> FALSE, days_active |-> 0, date_began |-> date,
      date_tagged |-> NoDate, date_repaired |-> NoDate,
      repair_delay |-> NoDelay, tagged_by_company |-> "None",
      tagged_by_crew |-> NoCrew ]

\* the leaks appended for the sites of list `ss` (in list order), one per
\* site of nsites with a positive count, with the rates of `rates`
RECURSIVE AppendLeaks(_, _, _, _, _)
AppendLeaks(ls, ss, counts, rates, date) ==
    IF ss = << >> THEN ls
    ELSE LET s == Head(ss) IN
         IF counts[s.facility_ID] > 0
         THEN AppendLeaks(Append(ls, NewLeak(s.facility_ID, rates[s.facility_ID], date)),
                          Tail(ss), counts, rates, date)
         ELSE AppendLeaks(ls, Tail(ss), counts, rates, date)

RECURSIVE SumSeq(_)
SumSeq(q) == IF q = << >> THEN 0 ELSE Head(q) + SumSeq(Tail(q))

CountOf(counts) == Cardinality({s \in SiteIds : counts[s] > 0})

\* random.shuffle(self.state['sites']): any order of the facilities
SiteOrders ==
    {q \in [1..NSites -> SiteIds] : \A i, j \in 1..NSites : i # j => q[i] # q[j]}

ZeroSeries == [d \in 0..(Timesteps - 1) |-> 0]

NewTimeseries ==
    [ active_leaks |-> << >>, new_leaks |-> << >>, cum_repaired_leaks |-> << >>,
      daily_emissions_kg |-> << >>, n_tags |-> << >>,
      OGI_prop_sites_avail |-> << >>,
      OGI_cost |-> ZeroSeries, total_daily_cost |-> ZeroSeries,
      OGI_redund_tags |-> ZeroSeries, OGI_sites_visited |-> ZeroSeries ]

NewCrew == [ rollover |-> << >>, worked_today |-> FALSE ]

\* KMeans(n_clusters=n_crews).labels_: every cluster holds a facility
Labelings(n_crews) ==
    IF n_crews > 1
    THEN {l \in [SiteIds -> 0..(n_crews - 1)] :
            \A c \in 0..(n_crews - 1) : \E s \in SiteIds : l[s] = c}
    ELSE {[s \in SiteIds |-> 0]}

\* site['lon_index'], site['lat_index']: the weather grid cell of a facility.
\* Crews that travel work on facilities in separate cells, the others on
\* facilities of one cell
CellOf(config, id) == IF config.geography THEN id ELSE 1
Cells(config) == {CellOf(config, id) : id \in SiteIds}

\* the runs checked.  Crews that draw offsite times: with the operator and
\* written outputs under each repair delay, and without either; crews that
\* travel between the facilities, with and without route planning, and such
\* crews deployed in the first month only
Configurations ==
    [ repair_delay : 0..MaxDelay, reporting_delay : {1},
      consider_operator : {TRUE}, write_data : {TRUE}, cost_per_day : {1},
      geography : {FALSE}, route_planning : {FALSE}, n_crews : {1},
      deployment_months : {1..MonthsPerYear} ]
    \cup
    [ repair_delay : {0}, reporting_delay : {1},
      consider_operator : {FALSE}, write_data : {FALSE}, cost_per_day : {1},
      geography : {FALSE}, route_planning : {FALSE}, n_crews : {1},
      deployment_months : {1..MonthsPerYear} ]
    \cup
    [ repair_delay : {MaxDelay}, reporting_delay : {1},
      consider_operator : {FALSE}, write_data : {FALSE}, cost_per_day : {1},
      geography : {TRUE}, route_planning : BOOLEAN, n_crews : {2},
      deployment_months : {1..MonthsPerYear} ]
    \cup
    [ repair_delay : {MaxDelay}, reporting_delay : {1},
      consider_operator : {FALSE}, write_data : {FALSE}, cost_per_day : {1},
      geography : {TRUE}, route_planning : {FALSE}, n_crews : {2},
      deployment_months : {{1}} ]

Init ==
    /\ t = 0
    /\ now = 0
    /\ startDoy = 0
    /\ startWeekday = DaysPerWeek - 1
    /\ pc = "update_state"
    /\ parameters \in Configurations
    /\ \E time \in [SiteIds -> SurveyTimes], min_int \in [SiteIds -> MinInts],
          rs \in [SiteIds -> Frequencies], n0 \in [SiteIds -> {0, 1}],
          r0 \in [SiteIds -> Rates], order \in SiteOrders,
          label \in Labelings(parameters.n_crews) :
         /\ \A s1, s2 \in SiteIds :
              s1 < s2 => /\ time[s1] < time[s2]
                         /\ min_int[s1] < min_int[s2]
                         /\ rs[s1] > rs[s2]
         /\ CountOf(n0) = 1
         /\ \A s \in SiteIds : r0[s] = IF n0[s] = 0 THEN 0 ELSE MaxRate
         /\ sites = [i \in 1..NSites |->
                       NewSite(order[i], time[order[i]], min_int[order[i]],
                               rs[order[i]], label[order[i]], n0[order[i]],
                               CellOf(parameters, order[i]))]
         /\ leaks = AppendLeaks(<< >>, sites, n0, r0, 0)
    /\ tags = << >>
    /\ active_leaks = {}
    /\ crews = [c \in 1..parameters.n_crews |-> NewCrew]
    /\ ci = 0
    /\ allowed_end_time = 0
    /\ x_LDAR = 0
    /\ current_x = 0
    /\ dd \in [Cells(parameters) -> BOOLEAN]
    /\ timeseries = NewTimeseries
    /\ campaigns = << >>
    /\ dayLog = << >>
    /\ flags = << >>
    /\ companies = << >>
    /\ gen_files = << >>
    /\ simulations = << >>
    /\ fingerprint = << >>
    /\ open_files = {}
    /\ pool = << >>
    /\ res = << >>

\* ---------------------------------------------------------- list helpers
\* sorted(list, key=t_since_last_LDAR, reverse=True): a stable sort, equal
\* keys keep their list order
RECURSIVE InsertByNeglect(_, _)
InsertByNeglect(sorted, s) ==
    IF sorted = << >> THEN << s >>
    ELSE IF Head(sorted).OGI_t_since_last_LDAR >= s.OGI_t_since_last_LDAR
         THEN << Head(sorted) >> \o InsertByNeglect(Tail(sorted), s)
         ELSE << s >> \o sorted

RECURSIVE SortByNeglect(_)
SortByNeglect(ss) ==
    IF ss = << >> THEN << >>
    ELSE LET rest == SortByNeglect(SubSeq(ss, 1, Len(ss) - 1))
         IN InsertByNeglect(rest, ss[Len(ss)])

\* -------------------------------------------------- LdarSim.update_state
\* every leak ages: a mutation of AgeLeak
AgeLeakAlways(leak) == [leak EXCEPT !.days_active = @ + 1]

\* if leak['status'] == 'active': leak['days_active'] += 1
AgeLeak(leak) ==
    IF leak.status = "active"
    THEN [leak EXCEPT !.days_active = @ + 1]
    ELSE leak

UpdateState ==
    /\ pc = "update_state"
    /\ leaks' = [i \in 1..Len(leaks) |-> AgeLeak(leaks[i])]
    /\ active_leaks' = {i \in 1..Len(leaks) : leaks[i].status = "active"}
    /\ timeseries' = [timeseries EXCEPT
                        !.active_leaks = Append(@, Cardinality(active_leaks'))]
    /\ dayLog' = Append(dayLog, "aging")
    /\ pc' = "add_leaks"
    /\ UNCHANGED restVars
    /\ UNCHANGED << t, now, startDoy, startWeekday, parameters, campaigns, sites, tags,
                    crews, ci, allowed_end_time, x_LDAR, current_x, dd >>

\* ----------------------------------------------------- LdarSim.add_leaks
AddLeaks ==
    /\ pc = "add_leaks"
    /\ \E n \in [SiteIds -> {0, 1}], r \in [SiteIds -> Rates] :
         /\ Len(leaks) + CountOf(n) <= MaxLeaks
         /\ \A s \in SiteIds : r[s] = IF n[s] = 0 THEN 0 ELSE MaxRate
         /\ sites' = [i \in 1..Len(sites) |->
                        [sites[i] EXCEPT !.n_new_leaks = n[sites[i].facility_ID]]]
         /\ leaks' = AppendLeaks(leaks, sites, n, r, now)
    /\ dayLog' = Append(dayLog, "spawn")
    /\ pc' = "find_leaks"
    /\ UNCHANGED restVars
    /\ UNCHANGED << t, now, startDoy, startWeekday, parameters, campaigns, tags,
                    active_leaks, crews, ci, allowed_end_time, x_LDAR,
                    current_x, dd, timeseries >>

\* ---------------------------------------------------------- geography
\* get_distance(x_LDAR, y_LDAR, x_site, y_site): facilities lie on a line
Distance(x1, x2) == IF x1 >= x2 THEN x1 - x2 ELSE x2 - x1
\* speed = np.random.choice([70,80,90,100]), km/h
Speeds == {70, 80, 90, 100}
\* wt = d/speed * 60, minutes; kept as 60 * wt so that it is a whole number
ScaledWt(d, speed) == (d * MinutesPerHour * MinutesPerHour) \div speed
\* find_homebase: the single home base lies at x = 0
HomeBaseX == 0
\* drive_home = timedelta(minutes=(DIST/80)*60)
DriveHomeMinutes(x) == (Distance(x, HomeBaseX) * MinutesPerHour) \div 80

\* the leaks of a list that carry a facility_ID
RECURSIVE FilterLeaks(_, _)
FilterLeaks(ls, fid) ==
    IF ls = << >> THEN << >>
    ELSE IF Head(ls).facility_ID = fid
         THEN << Head(ls) >> \o FilterLeaks(Tail(ls), fid)
         ELSE FilterLeaks(Tail(ls), fid)

\* the increasing sequence of the elements of a set of integers
RECURSIVE SetToSeq(_)
SetToSeq(S) ==
    IF S = {} THEN << >>
    ELSE LET m == CHOOSE x \in S : \A y \in S : x <= y
         IN << m >> \o SetToSeq(S \ {m})

SiteIndex(ss, fid) == CHOOSE i \in 1..Len(ss) : ss[i].facility_ID = fid

\* ------------------------------------------------- OGI_crew.choose_site
\* "Update site": the survey is counted when the site is chosen
CountSurvey(site) ==
    [site EXCEPT !.OGI_surveys_conducted = @ + 1,
                 !.surveys_done_this_year_OGI = @ + 1,
                 !.OGI_t_since_last_LDAR = 0]

\* the for loop over the neglect-sorted sites, from index i on.  st is
\* [ss, Site_T, n_seen, found, pick, travel_time, hour23]: the site list,
\* the travel times collected, the length of s_list, and the result so far.
RECURSIVE ChooseLoop(_, _, _, _, _)
ChooseLoop(st, i, crew_id, x, speed) ==
    IF i > Len(st.ss) THEN st
    ELSE
      LET site == st.ss[i]
          seen == [st EXCEPT !.n_seen = i]
      IN
      IF site.label + 1 # crew_id THEN ChooseLoop(seen, i + 1, crew_id, x, speed)
      ELSE IF site.attempted_today THEN ChooseLoop(seen, i + 1, crew_id, x, speed)
      ELSE IF site.OGI_t_since_last_LDAR < site.OGI_min_int
           THEN [seen EXCEPT !.hour23 = TRUE]                    \* break
      ELSE IF site.surveys_done_this_year_OGI >= site.OGI_RS
           THEN ChooseLoop(seen, i + 1, crew_id, x, speed)
      ELSE IF ~dd[site.cell]
           THEN ChooseLoop([seen EXCEPT !.ss[i].attempted_today = TRUE],
                           i + 1, crew_id, x, speed)
      ELSE IF parameters.geography
           THEN LET wt == ScaledWt(Distance(x, site.x), speed)
                    col == [seen EXCEPT !.Site_T = Append(@, wt)]
                IN IF ~parameters.route_planning
                   THEN [col EXCEPT !.found = TRUE, !.pick = i,
                                    !.travel_time = wt \div MinutesPerHour,
                                    !.ss[i] = CountSurvey(site)]  \* break
                   ELSE ChooseLoop(col, i + 1, crew_id, x, speed)
      ELSE [seen EXCEPT !.found = TRUE, !.pick = i,
                        !.ss[i] = CountSurvey(site)]              \* break

\* Site_T.index(min(Site_T)): the first position of the minimum
MinIndex(q) ==
    CHOOSE j \in 1..Len(q) :
        /\ \A k \in 1..Len(q) : q[j] <= q[k]
        /\ \A k \in 1..(j - 1) : q[k] > q[j]

\* the route_planning block after the loop: site = s_list[j] and
\* travel_time = min(Site_T)*60
RoutePick(st) ==
    IF parameters.route_planning /\ Len(st.Site_T) > 0
    THEN LET j == MinIndex(st.Site_T)
         IN [st EXCEPT !.found = TRUE, !.pick = j,
                       !.travel_time = st.Site_T[j],
                       !.ss[j] = CountSurvey(st.ss[j])]
    ELSE st

choose_site(crew_id, x, speed) ==
    RoutePick(ChooseLoop([ss |-> SortByNeglect(sites), Site_T |-> << >>,
                          n_seen |-> 0, found |-> FALSE, pick |-> 0,
                          travel_time |-> 0, hour23 |-> FALSE],
                         1, crew_id, x, speed))

\* --------------------------------------------------- OGI_crew.visit_site
\* the active leaks at the site
LeaksPresent(fid) ==
    {i \in 1..Len(leaks) : leaks[i].facility_ID = fid /\ leaks[i].status = "active"}

\* the outcomes np.random.binomial(1, prob_detect) can give for the leaks
\* present: a leak of rate 0 has prob_detect = 0 and is never detected
DetectionOutcomes(fid) == SUBSET {i \in LeaksPresent(fid) : leaks[i].rate # 0}

\* the leak as tagged by the crew
TagLeak(leak, company, crew_id, date) ==
    [leak EXCEPT !.tagged = TRUE, !.date_tagged = date,
                 !.tagged_by_company = company, !.tagged_by_crew = crew_id]

\* what one visit does to leaks, tags, the site and the day's counters, D
\* being the leaks detected; the clock is advanced by the caller
VisitSite(ss, fid, D, crew_id, date) ==
    LET newtags == {i \in D : ~leaks[i].tagged}
        k == SiteIndex(ss, fid)
    IN [ leaks |-> [i \in 1..Len(leaks) |->
                      IF i \in newtags
                      THEN TagLeak(leaks[i], "OGI", crew_id, date)
                      ELSE leaks[i]],
         tags |-> tags \o SetToSeq(newtags),
         sites |-> [ss EXCEPT ![k].OGI_missed_leaks =
                                  @ + Cardinality(LeaksPresent(fid) \ D)],
         redund |-> Cardinality(D \ newtags) ]

\* the timeseries after a visit that found `redund` tagged leaks again
VisitSeries(redund) ==
    [timeseries EXCEPT !.OGI_redund_tags[t] = @ + redund,
                       !.OGI_sites_visited[t] = @ + 1]

\* work hours of the OGI crew: consider_daylight is off, so max_workday
StartHour == (HoursPerDay - MaxWorkday) \div 2
EndHour == StartHour + MaxWorkday

\* ------------------------------ OGI_crew.work_a_day, up to the while loop
CrewStartDay ==
    /\ pc = "crew_start"
    /\ LET aet == ReplaceHourMin0(now, EndHour)
           now1 == ReplaceHour(now, StartHour)
           home == IF parameters.geography THEN HomeBaseX ELSE current_x
           ro == crews[ci].rollover
       IN
       /\ allowed_end_time' = aet
       /\ current_x' = home
       /\ x_LDAR' = home
       /\ IF ro = << >>
          THEN /\ \E off \in OffsiteTimes :
                    now' = IF parameters.geography THEN now1 ELSE now1 + off
               /\ crews' = [crews EXCEPT ![ci].worked_today = FALSE]
               /\ pc' = "crew_loop"
               /\ UNCHANGED << leaks, tags, sites, timeseries >>
          ELSE \E drive \in OffsiteTimes, off1 \in OffsiteTimes,
                  off2 \in OffsiteTimes, D \in DetectionOutcomes(ro[1]) :
               LET projected_end_time == now1 + ro[2]
                   drive_home == IF parameters.geography
                                 THEN DriveHomeMinutes(home) ELSE drive
                   v == VisitSite(sites, ro[1], D, ci, now1)
                   time == sites[SiteIndex(sites, ro[1])].OGI_time
               IN
               IF projected_end_time + drive_home > aet
               THEN \* self.rollover = []; self.rollover[0] raises IndexError
                    /\ crews' = [crews EXCEPT ![ci] = NewCrew]
                    /\ now' = now1
                    /\ pc' = "crashed"
                    /\ UNCHANGED << leaks, tags, sites, timeseries >>
               ELSE /\ leaks' = v.leaks
                    /\ tags' = v.tags
                    /\ sites' = v.sites
                    /\ timeseries' = VisitSeries(v.redund)
                    /\ crews' = [crews EXCEPT ![ci] =
                                   [rollover |-> << >>, worked_today |-> TRUE]]
                    /\ now' = IF parameters.geography
                              THEN now1 + time + off1
                              ELSE now1 + time + off1 + off2
                    /\ pc' = "crew_loop"
    /\ UNCHANGED restVars
    /\ UNCHANGED << t, startDoy, startWeekday, parameters, campaigns, active_leaks, ci,
                    dd, dayLog >>

\* the crew's day is over: the daily cost, then the next crew
CrewEndDay(cr, ts) ==
    /\ timeseries' =
         IF cr[ci].worked_today
         THEN [ts EXCEPT !.OGI_cost[t] = @ + parameters.cost_per_day,
                         !.total_daily_cost[t] = @ + parameters.cost_per_day]
         ELSE ts
    /\ crews' = cr
    /\ IF ci < parameters.n_crews
       THEN ci' = ci + 1 /\ pc' = "crew_start"
       ELSE ci' = ci /\ pc' = "company_end"

\* one pass of the while loop of OGI_crew.work_a_day without geography
CrewLoopOffsite ==
    /\ pc = "crew_loop"
    /\ ~parameters.geography
    /\ IF now < allowed_end_time
       THEN LET cs == choose_site(ci, 0, 0)  \* no travel: the speed is unused
                now1 == IF cs.hour23 THEN ReplaceHour(now, LastHour) ELSE now
            IN
            IF ~cs.found
            THEN /\ sites' = cs.ss
                 /\ now' = now1
                 /\ CrewEndDay(crews, timeseries)
                 /\ UNCHANGED << leaks, tags >>
            ELSE \E drive \in OffsiteTimes, off \in OffsiteTimes,
                    D \in DetectionOutcomes(cs.ss[cs.pick].facility_ID) :
                 LET site == cs.ss[cs.pick]
                     projected_end_time == now1 + site.OGI_time
                     v == VisitSite(cs.ss, site.facility_ID, D, ci, now1)
                 IN
                 IF projected_end_time + drive > allowed_end_time
                 THEN /\ crews' = [crews EXCEPT ![ci] =
                            [rollover |-> << site.facility_ID,
                                             projected_end_time - allowed_end_time >>,
                             worked_today |-> TRUE]]
                      /\ now' = allowed_end_time
                      /\ sites' = cs.ss
                      /\ UNCHANGED << leaks, tags, timeseries, ci, pc >>
                 ELSE /\ leaks' = v.leaks
                      /\ tags' = v.tags
                      /\ sites' = v.sites
                      /\ timeseries' = VisitSeries(v.redund)
                      /\ now' = now1 + site.OGI_time + off
                      /\ crews' = [crews EXCEPT ![ci].worked_today = TRUE]
                      /\ UNCHANGED << ci, pc >>
       ELSE /\ CrewEndDay(crews, timeseries)
            /\ UNCHANGED << now, sites, leaks, tags >>
    /\ UNCHANGED restVars
    /\ UNCHANGED << t, startDoy, startWeekday, parameters, campaigns, active_leaks,
                    allowed_end_time, x_LDAR, current_x, dd, dayLog >>

\* one pass of the while loop of OGI_crew.work_a_day with geography
CrewLoopGeography ==
    /\ pc = "crew_loop"
    /\ parameters.geography
    /\ IF HourOf(now) < EndHour
       THEN \E speed \in Speeds :
            LET cs == choose_site(ci, x_LDAR, speed)
                now1 == IF cs.hour23 THEN ReplaceHour(now, LastHour) ELSE now
            IN
            IF ~cs.found
            THEN /\ sites' = cs.ss
                 /\ now' = now1
                 /\ current_x' = HomeBaseX
                 /\ x_LDAR' = HomeBaseX
                 /\ CrewEndDay(crews, timeseries)
            ELSE LET site == cs.ss[cs.pick]
                     projected_end_time == now1 + site.OGI_time
                     now2 == now1 + cs.travel_time
                 IN
                 /\ sites' = cs.ss
                 /\ IF HourOf(now2) > EndHour
                    THEN /\ now' = allowed_end_time
                         /\ current_x' = HomeBaseX
                         /\ x_LDAR' = x_LDAR
                         /\ CrewEndDay([crews EXCEPT ![ci].rollover =
                                          << site.facility_ID,
                                             projected_end_time - allowed_end_time >>],
                                       timeseries)
                    ELSE \* self.visit_site(facility_ID, site) raises TypeError
                         /\ now' = now2
                         /\ x_LDAR' = site.x
                         /\ pc' = "crashed"
                         /\ UNCHANGED << crews, timeseries, ci, current_x >>
       ELSE /\ CrewEndDay(crews, timeseries)
            /\ UNCHANGED << now, sites, x_LDAR, current_x >>
    /\ UNCHANGED restVars
    /\ UNCHANGED << t, startDoy, startWeekday, parameters, campaigns, active_leaks,
                    allowed_end_time, dd, dayLog, leaks, tags >>

\* --------------------------------------------- OGI_company.find_leaks
\* the company sends its crews to work
CompanyFindLeaks ==
    /\ pc = "find_leaks"
    /\ dayLog' = Append(dayLog, "OGI")
    /\ IF MonthOf(now) \in parameters.deployment_months
       THEN /\ IF parameters.n_crews > 0
               THEN ci' = 1 /\ pc' = "crew_start"
               ELSE ci' = ci /\ pc' = "company_end"
            /\ UNCHANGED timeseries
       ELSE /\ timeseries' = [timeseries EXCEPT
                                !.OGI_prop_sites_avail = Append(@, 0)]
            /\ pc' = "operator"
            /\ UNCHANGED ci
    /\ UNCHANGED restVars
    /\ UNCHANGED << t, now, startDoy, startWeekday, parameters, campaigns, sites, leaks,
                    tags, active_leaks, crews, allowed_end_time, x_LDAR,
                    current_x, dd >>

\* after the crews: the method's site variables and the day's availability
CompanyEndDay ==
    /\ pc = "company_end"
    /\ LET jan1 == DayOfMonth(now) = 1 /\ MonthOf(now) = 1
       IN sites' = [i \in 1..Len(sites) |->
                      [sites[i] EXCEPT
                         !.OGI_t_since_last_LDAR = @ + 1,
                         !.attempted_today = FALSE,
                         !.surveys_done_this_year_OGI = IF jan1 THEN 0 ELSE @]]
    /\ timeseries' = [timeseries EXCEPT !.OGI_prop_sites_avail =
                        Append(@, Cardinality({i \in 1..Len(sites) : dd[sites[i].cell]}))]
    /\ pc' = "operator"
    /\ UNCHANGED restVars
    /\ UNCHANGED << t, now, startDoy, startWeekday, parameters, campaigns, leaks, tags,
                    active_leaks, crews, ci, allowed_end_time, x_LDAR,
                    current_x, dd, dayLog >>

\* ------------------------- LdarSim.find_leaks: the operator, on Mondays
\* the operator works every day: a mutation of OperatorDue
OperatorDueDaily == parameters.consider_operator

\* if consider_operator: if current_date.weekday() == 0
OperatorDue == parameters.consider_operator /\ Weekday(now) = 0

\* OperatorAgent.work_a_day: the operator may find untagged active leaks
OperatorWork ==
    /\ pc = "operator"
    /\ IF OperatorDue
       THEN \E D \in SUBSET {i \in 1..Len(leaks) :
                               leaks[i].status = "active" /\ ~leaks[i].tagged} :
              /\ leaks' = [i \in 1..Len(leaks) |->
                             IF i \in D
                             THEN TagLeak(leaks[i], "operator", 1, now)
                             ELSE leaks[i]]
              /\ tags' = tags \o SetToSeq(D)
              /\ dayLog' = Append(dayLog, "operator")
       ELSE UNCHANGED << leaks, tags, dayLog >>
    /\ pc' = "repair_leaks"
    /\ UNCHANGED restVars
    /\ UNCHANGED << t, now, startDoy, startWeekday, parameters, campaigns, sites,
                    active_leaks, crews, ci, allowed_end_time, x_LDAR,
                    current_x, dd, timeseries >>

\* -------------------------------------------------- LdarSim.repair_leaks
\* days a tagged leak waits: repair_delay, plus the reporting delay of the
\* method that tagged it unless the operator did
RepairBound(leak) ==
    IF leak.tagged_by_company # "operator"
    THEN parameters.repair_delay + parameters.reporting_delay
    ELSE parameters.repair_delay

RepairDue(leak) == TimedeltaDays(now, leak.date_tagged) >= RepairBound(leak)

\* the sweep forgets the date of the repair: a mutation of RepairLeak
RepairLeakUndated(leak) ==
    [leak EXCEPT !.status = "repaired", !.tagged = FALSE,
                 !.repair_delay = TimedeltaDays(now, leak.date_tagged)]

\* the sweep restamps the tag as it repairs: a mutation of RepairLeak
RepairLeakRestamped(leak) ==
    [leak EXCEPT !.status = "repaired", !.tagged = FALSE,
                 !.date_tagged = now, !.date_repaired = now,
                 !.repair_delay = TimedeltaDays(now, leak.date_tagged)]

RepairLeak(leak) ==
    [leak EXCEPT !.status = "repaired", !.tagged = FALSE,
                 !.date_repaired = now,
                 !.repair_delay = TimedeltaDays(now, leak.date_tagged)]

RECURSIVE FilterSeq(_, _)
FilterSeq(q, S) ==
    IF q = << >> THEN << >>
    ELSE IF Head(q) \in S THEN << Head(q) >> \o FilterSeq(Tail(q), S)
         ELSE FilterSeq(Tail(q), S)

RepairLeaks ==
    /\ pc = "repair_leaks"
    /\ LET due == {tags[k] : k \in {j \in 1..Len(tags) : RepairDue(leaks[tags[j]])}}
       IN /\ leaks' = [i \in 1..Len(leaks) |->
                         IF i \in due THEN RepairLeak(leaks[i]) ELSE leaks[i]]
          /\ tags' = FilterSeq(tags, {i \in 1..Len(leaks) : leaks'[i].status = "active"})
    /\ dayLog' = Append(dayLog, "repair")
    /\ pc' = "report"
    /\ UNCHANGED restVars
    /\ UNCHANGED << t, now, startDoy, startWeekday, parameters, campaigns, sites,
                    active_leaks, crews, ci, allowed_end_time, x_LDAR,
                    current_x, dd, timeseries >>

\* --------------------------------------------------------- LdarSim.report
\* sum(d['rate'] for d in self.active_leaks): the snapshot of update_state
RECURSIVE SumRates(_)
SumRates(S) ==
    IF S = {} THEN 0
    ELSE LET i == CHOOSE x \in S : TRUE IN leaks[i].rate + SumRates(S \ {i})

\* the leaks waiting for repair are reported: a mutation of CountRepaired
CountTagged == Cardinality({i \in 1..Len(leaks) : leaks[i].tagged})

\* sum(d['status'] == 'repaired' for d in self.state['leaks'])
CountRepaired == Cardinality({i \in 1..Len(leaks) : leaks[i].status = "repaired"})

Report ==
    /\ pc = "report"
    /\ timeseries' =
         [timeseries EXCEPT
            !.new_leaks = Append(@, SumSeq([i \in 1..Len(sites) |-> sites[i].n_new_leaks])),
            !.cum_repaired_leaks = Append(@, CountRepaired),
            !.daily_emissions_kg = Append(@, SumRates(active_leaks)),
            !.n_tags = Append(@, Len(tags))]
    /\ dayLog' = Append(dayLog, "report")
    /\ pc' = "next_day"
    /\ UNCHANGED restVars
    /\ UNCHANGED << t, now, startDoy, startWeekday, parameters, campaigns, sites, leaks,
                    tags, active_leaks, crews, ci, allowed_end_time, x_LDAR,
                    current_x, dd >>

\* ------------------------- the run loop: TimeCounter.next_day or finalize
NextDay ==
    /\ pc = "next_day"
    /\ t + 1 < Timesteps
    /\ now' = now + MinutesPerDay
    /\ t' = t + 1
    /\ dd' \in [Cells(parameters) -> BOOLEAN]
    /\ dayLog' = << >>
    /\ pc' = "update_state"
    /\ UNCHANGED restVars
    /\ UNCHANGED << startDoy, startWeekday, parameters, campaigns, sites, leaks, tags,
                    active_leaks, crews, ci, allowed_end_time, x_LDAR,
                    current_x, timeseries >>

\* ------------------------------------------------------- LdarSim.finalize
\* the attribution loop over the leaks, in list order, from leak k on: the
\* first site of the list with the leak's facility_ID gets it (break)
\* the rate alone is attributed: a mutation of LeakEmission
LeakEmissionOfOneDay(leak) == leak.rate

\* tot_emissions_kg = leak['days_active'] * leak['rate']
LeakEmission(leak) == leak.days_active * leak.rate

RECURSIVE Attribute(_, _)
Attribute(ss, k) ==
    IF k > Len(leaks) THEN ss
    ELSE LET leak == leaks[k]
             tot_emissions_kg == LeakEmission(leak)
             hit == {i \in 1..Len(ss) : ss[i].facility_ID = leak.facility_ID}
         IN IF hit = {} THEN Attribute(ss, k + 1)
            ELSE LET i == CHOOSE x \in hit : \A y \in hit : x <= y
                 IN Attribute(
                      [ss EXCEPT
                         ![i].total_emissions_kg = @ + tot_emissions_kg,
                         ![i].active_leaks =
                            IF leak.status = "active" THEN @ + 1 ELSE @,
                         ![i].repaired_leaks =
                            IF leak.status = "repaired" THEN @ + 1 ELSE @],
                      k + 1)

Finalize ==
    /\ pc = "next_day"
    /\ t + 1 >= Timesteps
    /\ sites' = IF parameters.write_data THEN Attribute(sites, 1) ELSE sites
    /\ pc' = "done"
    /\ UNCHANGED restVars
    /\ UNCHANGED << t, now, startDoy, startWeekday, parameters, campaigns, leaks, tags,
                    active_leaks, crews, ci, allowed_end_time, x_LDAR,
                    current_x, dd, timeseries, dayLog >>

Next ==
    \/ UpdateState
    \/ AddLeaks
    \/ CompanyFindLeaks
    \/ CrewStartDay
    \/ CrewLoopOffsite
    \/ CrewLoopGeography
    \/ CompanyEndDay
    \/ OperatorWork
    \/ RepairLeaks
    \/ Report
    \/ NextDay
    \/ Finalize

Spec == Init /\ [][Next]_vars

\* ------------------- component-scale detection: the sensor and update_tag
\* config['label'] of the methods whose crews carry the default sensor
Companies == {"OGI", "OGI_FU"}
\* the crews at work: [company, id] in the order they are dispatched
SensorCrews ==
    << [company |-> "OGI", id |-> 2, worked_today |-> FALSE],
       [company |-> "OGI_FU", id |-> 1, worked_today |-> FALSE] >>

\* '{}_redund_tags'.format(company), '{}_missed_leaks' likewise
RedundKey(company) == IF company = "OGI" THEN "OGI_redund_tags" ELSE "OGI_FU_redund_tags"
MissedKey(company) == IF company = "OGI" THEN "OGI_missed_leaks" ELSE "OGI_FU_missed_leaks"

\* a site as the sensor reads it: flag is "no", "anonymous" (currently
\* flagged, flagged_by None) or "aircraft" (currently flagged by that method)
SensorSite(id, flag) ==
    [ facility_ID |-> id, subtype_code |-> 0,
      currently_flagged |-> (flag # "no"),
      flagged_by |-> IF flag = "aircraft" THEN "aircraft" ELSE "None",
      date_flagged |-> IF flag = "no" THEN NoDate ELSE 0,
      OGI_missed_leaks |-> 0, OGI_FU_missed_leaks |-> 0 ]

SensorLeak(fid, rate) ==
    [ facility_ID |-> fid, rate |-> rate, status |-> "active",
      tagged |-> FALSE, days_active |-> 0, date_began |-> 0,
      date_tagged |-> NoDate, date_repaired |-> NoDate,
      repair_delay |-> NoDelay, tagged_by_company |-> "None",
      tagged_by_crew |-> NoCrew, init_detect_by |-> "None",
      init_detect_date |-> NoDate ]

InitTag ==
    /\ t = 0
    /\ now = 0
    /\ startDoy = 0
    /\ startWeekday = 0
    /\ pc = "survey"
    /\ parameters \in [measurement_scale : {"component"}, MDL : Rates]
    /\ \E flag \in [SiteIds -> {"no", "anonymous", "aircraft"}] :
         sites = [i \in 1..NSites |-> SensorSite(i, flag[i])]
    /\ \E fid \in [1..MaxLeaks -> SiteIds], rate \in [1..MaxLeaks -> Rates] :
         leaks = [i \in 1..MaxLeaks |-> SensorLeak(fid[i], rate[i])]
    /\ tags = << >>
    /\ active_leaks = {}
    /\ crews = SensorCrews
    /\ ci = 0
    /\ allowed_end_time = 0
    /\ x_LDAR = 0
    /\ current_x = 0
    /\ dd = << >>
    /\ timeseries = [OGI_redund_tags |-> ZeroSeries, OGI_FU_redund_tags |-> ZeroSeries]
    /\ campaigns = [st \in {0} |-> [c \in Companies |->
                      [n_tags |-> << 0 >>, current_campaign |-> 1]]]
    /\ dayLog = << >>
    /\ flags = << >>
    /\ companies = << >>
    /\ gen_files = << >>
    /\ simulations = << >>
    /\ fingerprint = << >>
    /\ open_files = {}
    /\ pool = << >>
    /\ res = << >>

\* update_tag on the state st = [leaks, sites, timeseries, campaigns] for the
\* leak of index i at the site of index k
update_tag(st, i, k, company, crew_id) ==
    LET leak == st.leaks[i]
        site == st.sites[k]
    IN
    IF leak.tagged
    THEN IF company = "natural"
         THEN [st EXCEPT !.leaks[i].date_tagged = now,
                         !.leaks[i].tagged_by_company = company]
         ELSE IF leak.tagged_by_company = company
              THEN [st EXCEPT !.timeseries[RedundKey(company)][t] = @ + 1]
              ELSE st
    ELSE LET credited == site.currently_flagged /\ site.flagged_by # "None"
             campaign == st.campaigns[site.subtype_code][company]
         IN [st EXCEPT
               !.leaks[i].tagged = TRUE,
               !.leaks[i].date_tagged = now,
               !.leaks[i].tagged_by_company = company,
               !.leaks[i].tagged_by_crew = crew_id,
               !.leaks[i].init_detect_by =
                   IF credited THEN site.flagged_by ELSE company,
               !.leaks[i].init_detect_date =
                   IF credited THEN site.date_flagged ELSE now,
               !.campaigns[site.subtype_code][company].n_tags[campaign.current_campaign]
                   = @ + 1 ]

\* the component branch of detect_emissions: for leak in covered_leaks
RECURSIVE DetectLoop(_, _, _, _, _)
DetectLoop(st, covered, k, company, crew_id) ==
    IF covered = << >> THEN st
    ELSE LET i == Head(covered)
         IN IF st.leaks[i].rate > parameters.MDL
            THEN DetectLoop(update_tag(st, i, k, company, crew_id),
                            Tail(covered), k, company, crew_id)
            ELSE DetectLoop([st EXCEPT !.sites[k][MissedKey(company)] = @ + 1],
                            Tail(covered), k, company, crew_id)

\* a crew that has not worked today surveys a site with the default sensor
DetectEmissions ==
    /\ pc = "survey"
    /\ parameters.measurement_scale = "component"
    /\ \E c \in 1..Len(crews), k \in 1..Len(sites) :
         /\ ~crews[c].worked_today
         /\ LET covered_leaks == SetToSeq(LeaksPresent(sites[k].facility_ID))
                st == DetectLoop([leaks |-> leaks, sites |-> sites,
                                  timeseries |-> timeseries,
                                  campaigns |-> campaigns],
                                 covered_leaks, k, crews[c].company, crews[c].id)
            IN /\ leaks' = st.leaks
               /\ sites' = st.sites
               /\ timeseries' = st.timeseries
               /\ campaigns' = st.campaigns
         /\ crews' = [crews EXCEPT ![c].worked_today = TRUE]
         /\ ci' = c
         /\ dayLog' = Append(dayLog, [crew |-> c, facility_ID |-> sites[k].facility_ID])
    /\ UNCHANGED restVars
    /\ UNCHANGED << t, now, startDoy, startWeekday, pc, parameters, tags,
                    active_leaks, allowed_end_time, x_LDAR, current_x, dd >>

\* TimeCounter.next_day between the days of surveys
TagNextDay ==
    /\ pc = "survey"
    /\ t + 1 < Timesteps
    /\ now' = now + MinutesPerDay
    /\ t' = t + 1
    /\ crews' = [c \in 1..Len(crews) |-> [crews[c] EXCEPT !.worked_today = FALSE]]
    /\ dayLog' = << >>
    /\ UNCHANGED restVars
    /\ UNCHANGED << startDoy, startWeekday, pc, parameters, sites, leaks, tags,
                    active_leaks, ci, allowed_end_time, x_LDAR, current_x, dd,
                    timeseries, campaigns >>

NextTag ==
    \/ DetectEmissions
    \/ TagNextDay

SpecTag == InitTag /\ [][NextTag]_vars

\* ------------------- flagging: flag_sites of the companies and update_flag
\* SpecFlag runs the end of a screening company's day: the crews hand in
\* candidate_flags, the company's flag_sites flags sites for follow-up, a
\* follow-up crew's component-scale survey takes a flag down again.  Three
\* revisions of flag_sites are run, chosen by parameters.flag_sites:
\* BaseCompany.flag_sites, truck_company.flag_sites and the watchlist
\* procedure that calls update_flag.  No leaks and no venting in these runs
\* (leaks_present empty, consider_venting False).
FlagDays == 2                 \* days of screening in the flagging runs
NScreened == 3                \* sites of the screening company
ScreenedIds == 1..NScreened
FlagRates == {1, 10, 20}      \* site_measured_rate, in tenths of the rate unit
FlagThresholds == {5}         \* follow_up threshold, in the same unit
Ratios == { [num |-> 1, den |-> 2], [num |-> 1, den |-> 1] } \* follow_up_ratio
NoRate == -1                  \* a dictionary key that is absent
FlagCodes == {"BaseCompany", "truck_company", "watchlist"}

\* int(math.ceil(n * ratio))
CeilMul(n, ratio) == (n * ratio.num + ratio.den - 1) \div ratio.den

\* config['label'] of the screening method (config['name'] in truck_company)
FlagLabel == IF parameters.flag_sites = "truck_company" THEN "truck" ELSE "aircraft"

FlagSite(id) ==
    [ facility_ID |-> id, subtype_code |-> 0, currently_flagged |-> FALSE,
      flagged_by |-> "None", date_flagged |-> NoDate ]

InitFlag ==
    /\ t = 0
    /\ now = 0
    /\ startDoy = 0
    /\ startWeekday = 0
    /\ pc = "screen"
    /\ parameters \in [ flag_sites : FlagCodes,
                        interaction_priority : {"threshold", "proportion"},
                        threshold : FlagThresholds,
                        follow_up_ratio : Ratios,
                        redundancy_filter : {"recent", "max"} ]
    \* truck_company reads neither the priority nor the filter
    /\ parameters.flag_sites = "truck_company" =>
         /\ parameters.interaction_priority = "threshold"
         /\ parameters.redundancy_filter = "recent"
    /\ sites = [i \in 1..NScreened |-> FlagSite(i)]
    /\ leaks = << >>
    /\ tags = << >>
    /\ active_leaks = {}
    /\ crews = << >>
    /\ ci = 0
    /\ allowed_end_time = 0
    /\ x_LDAR = 0
    /\ current_x = 0
    /\ dd = << >>
    /\ timeseries = [ eff_flags |-> [d \in 0..(FlagDays - 1) |-> 0],
                      flags_redund1 |-> [d \in 0..(FlagDays - 1) |-> 0] ]
    /\ campaigns = [n_flags |-> << 0 >>, current_campaign |-> 1]
    /\ dayLog = << >>
    /\ flags = << >>
    /\ companies = [candidate_flags |-> << >>, site_watchlist |-> << >>]
    /\ gen_files = << >>
    /\ simulations = << >>
    /\ fingerprint = << >>
    /\ open_files = {}
    /\ pool = << >>
    /\ res = << >>

\* the flag written on a chosen site by BaseCompany.flag_sites and by
\* truck_company.flag_sites, on st = [sites, timeseries, campaigns]
FlagBody(st, fid, label) ==
    LET k == SiteIndex(st.sites, fid)
    IN IF st.sites[k].currently_flagged
       THEN [st EXCEPT !.timeseries.flags_redund1[t] = @ + 1]
       ELSE [st EXCEPT !.sites[k].currently_flagged = TRUE,
                       !.sites[k].date_flagged = now,
                       !.sites[k].flagged_by = label,
                       !.timeseries.eff_flags[t] = @ + 1]

\* a flag that stamps the date and the method on a site already flagged
update_flagRestamped(st, fid, company) ==
    LET k == SiteIndex(st.sites, fid)
    IN IF st.sites[k].currently_flagged
       THEN [st EXCEPT !.sites[k].date_flagged = now,
                       !.sites[k].flagged_by = company,
                       !.timeseries.flags_redund1[t] = @ + 1]
       ELSE [st EXCEPT !.sites[k].currently_flagged = TRUE,
                       !.sites[k].date_flagged = now,
                       !.sites[k].flagged_by = company,
                       !.campaigns.n_flags[st.campaigns.current_campaign] = @ + 1,
                       !.timeseries.eff_flags[t] = @ + 1]

\* update_flag of utils/attribution.py on the site of a screening result
update_flag(st, fid, company) ==
    LET k == SiteIndex(st.sites, fid)
    IN IF st.sites[k].currently_flagged
       THEN [st EXCEPT !.timeseries.flags_redund1[t] = @ + 1]
       ELSE [st EXCEPT !.sites[k].currently_flagged = TRUE,
                       !.sites[k].date_flagged = now,
                       !.sites[k].flagged_by = company,
                       !.campaigns.n_flags[st.campaigns.current_campaign] = @ + 1,
                       !.timeseries.eff_flags[t] = @ + 1]

\* index of the watchlist entry of a facility, 0 if it has none
WatchIndex(wl, fid) ==
    IF \E i \in 1..Len(wl) : wl[i].facility_ID = fid
    THEN CHOOSE i \in 1..Len(wl) : wl[i].facility_ID = fid
    ELSE 0

\* the effective rate of a list of measured rates under the redundancy
\* filters 'recent' and 'max'
EffectiveRate(filter, rates) ==
    IF filter = "recent" THEN rates[Len(rates)]
    ELSE CHOOSE m \in {rates[i] : i \in 1..Len(rates)} :
            \A i \in 1..Len(rates) : rates[i] <= m

\* BaseCompany.flag_sites: its 'mean' is np.average(rates[-1]), the last rate
EffectiveRateBase(filter, rates) ==
    IF filter = "max"
    THEN CHOOSE m \in {rates[i] : i \in 1..Len(rates)} :
            \A i \in 1..Len(rates) : rates[i] <= m
    ELSE rates[Len(rates)]

\* the threshold test of a candidate before it enters the watchlist
PassesThreshold(c) ==
    \/ /\ parameters.interaction_priority = "threshold"
       /\ c.site_measured_rate > parameters.threshold
    \/ parameters.interaction_priority # "threshold"

\* BaseCompany.flag_sites, the watchlist update of one candidate: on an entry
\* that exists the effective rate is written under the key
\* 'effective_site_rate ' (field effective_site_rate_sp), a new key
RECURSIVE UpdateWatchlistBase(_, _)
UpdateWatchlistBase(wl, cands) ==
    IF cands = << >> THEN wl
    ELSE LET c == Head(cands)
             i == WatchIndex(wl, c.site)
             wl1 == IF ~PassesThreshold(c) THEN wl
                    ELSE IF i = 0
                    THEN Append(wl, [ facility_ID |-> c.site,
                                      dates |-> << now >>,
                                      site_measured_rates |-> << c.site_measured_rate >>,
                                      effective_site_rate |-> c.site_measured_rate,
                                      effective_site_rate_sp |-> NoRate ])
                    ELSE [wl EXCEPT
                            ![i].dates = Append(@, now),
                            ![i].site_measured_rates = Append(@, c.site_measured_rate),
                            ![i].effective_site_rate_sp =
                                EffectiveRateBase(parameters.redundancy_filter,
                                    Append(wl[i].site_measured_rates,
                                           c.site_measured_rate))]
         IN UpdateWatchlistBase(wl1, Tail(cands))

\* the watchlist update of the flagging procedure: the effective rate of an
\* entry follows its measurements
RECURSIVE UpdateWatchlist(_, _)
UpdateWatchlist(wl, cands) ==
    IF cands = << >> THEN wl
    ELSE LET c == Head(cands)
             i == WatchIndex(wl, c.site)
             wl1 == IF ~PassesThreshold(c) THEN wl
                    ELSE IF i = 0
                    THEN Append(wl, [ facility_ID |-> c.site,
                                      dates |-> << now >>,
                                      site_measured_rates |-> << c.site_measured_rate >>,
                                      effective_site_rate |-> c.site_measured_rate,
                                      effective_site_rate_sp |-> NoRate ])
                    ELSE [wl EXCEPT
                            ![i].dates = Append(@, now),
                            ![i].site_measured_rates = Append(@, c.site_measured_rate),
                            ![i].effective_site_rate =
                                EffectiveRate(parameters.redundancy_filter,
                                    Append(wl[i].site_measured_rates,
                                           c.site_measured_rate))]
         IN UpdateWatchlist(wl1, Tail(cands))

\* sorted(watchlist.items(), key=effective_site_rate, reverse=True): a stable
\* sort, entries of equal rate keep their order
RECURSIVE SortByRate(_)
SortByRate(q) ==
    LET RECURSIVE Insert(_, _)
        Insert(e, r) ==
            IF r = << >> THEN << e >>
            ELSE IF e.effective_site_rate >= Head(r).effective_site_rate
                 THEN << e >> \o r
                 ELSE << Head(r) >> \o Insert(e, Tail(r))
    IN IF q = << >> THEN << >>
       ELSE Insert(Head(q), SortByRate(Tail(q)))

\* the flag loop over a list of facility_IDs
RECURSIVE FlagLoop(_, _, _)
FlagLoop(st, fids, label) ==
    IF fids = << >> THEN st
    ELSE FlagLoop(FlagBody(st, Head(fids), label), Tail(fids), label)

RECURSIVE UpdateFlagLoop(_, _, _)
UpdateFlagLoop(st, fids, company) ==
    IF fids = << >> THEN st
    ELSE UpdateFlagLoop(update_flag(st, Head(fids), company), Tail(fids), company)

\* truck_company.flag_sites: the candidates whose measured rate is one of the
\* n highest measured rates of the day
TruckSitesToFlag(cands) ==
    LET n_sites_to_flag == CeilMul(Len(cands), parameters.follow_up_ratio)
        \* measured_rates.sort(reverse=True)
        RECURSIVE InsertDesc(_, _)
        InsertDesc(r, q) ==
            IF q = << >> THEN << r >>
            ELSE IF r > Head(q) THEN << r >> \o q
                 ELSE << Head(q) >> \o InsertDesc(r, Tail(q))
        RECURSIVE SortDesc(_)
        SortDesc(q) ==
            IF q = << >> THEN << >> ELSE InsertDesc(Head(q), SortDesc(Tail(q)))
        measured_rates == SortDesc([i \in 1..Len(cands) |-> cands[i].site_measured_rate])
        target_rates == {measured_rates[i] : i \in 1..n_sites_to_flag}
        RECURSIVE Pick(_)
        Pick(q) == IF q = << >> THEN << >>
                   ELSE IF Head(q).site_measured_rate \in target_rates
                        THEN << Head(q).site >> \o Pick(Tail(q))
                        ELSE Pick(Tail(q))
    IN Pick(cands)

\* a screening crew's visit_site of the next site of the list: the result is
\* appended to candidate_flags (truck_crew: if it is above the threshold); a
\* site the crews do not reach today is passed over
Screen ==
    /\ pc = "screen"
    /\ ci < NScreened
    /\ ci' = ci + 1
    /\ \/ UNCHANGED companies
       \/ \E r \in FlagRates :
            /\ parameters.flag_sites = "truck_company" => r > parameters.threshold
            /\ companies' = [companies EXCEPT !.candidate_flags =
                               Append(@, [ site |-> sites[ci + 1].facility_ID,
                                           site_measured_rate |-> r ])]
    /\ UNCHANGED << t, now, startDoy, startWeekday, pc, parameters, sites, leaks,
                    tags, active_leaks, crews, allowed_end_time, x_LDAR,
                    current_x, dd, timeseries, campaigns, dayLog, flags,
                    gen_files, simulations,
                    fingerprint, open_files,
                    pool, res >>

\* the company after its crews: 'if len(self.candidate_flags) > 0:
\* self.flag_sites()'.  dayLog records the facility_IDs the flag loop ran on.
FlagSites ==
    /\ pc = "screen"
    /\ ci = NScreened
    /\ LET cands == companies.candidate_flags
           st0 == [sites |-> sites, timeseries |-> timeseries, campaigns |-> campaigns]
       IN IF cands = << >>
          THEN /\ pc' = "flagged"
               /\ UNCHANGED << sites, timeseries, campaigns, dayLog, companies >>
          ELSE IF parameters.flag_sites = "truck_company"
          THEN LET sites_to_flag == TruckSitesToFlag(cands)
                   st == FlagLoop(st0, sites_to_flag, FlagLabel)
               IN /\ sites' = st.sites
                  /\ timeseries' = st.timeseries
                  /\ dayLog' = sites_to_flag
                  /\ pc' = "flagged"
                  /\ UNCHANGED << campaigns, companies >>
          ELSE IF parameters.flag_sites = "BaseCompany"
          THEN \* n_sites_to_flag is computed and not read again; the loop
               \* runs over the keys of the watchlist and indexes a key:
               \* i['site'] raises on the first one
               LET wl == SortByRate(UpdateWatchlistBase(companies.site_watchlist, cands))
                   n_sites_to_flag == CeilMul(Len(wl), parameters.follow_up_ratio)
                   target_sites == wl
               IN /\ companies' = [companies EXCEPT !.site_watchlist = wl]
                  /\ pc' = IF target_sites = << >> THEN "flagged" ELSE "crashed"
                  /\ UNCHANGED << sites, timeseries, campaigns, dayLog >>
          ELSE LET wl == SortByRate(UpdateWatchlist(companies.site_watchlist, cands))
                   n_flag == CeilMul(Len(wl), parameters.follow_up_ratio)
                   chosen == [i \in 1..n_flag |-> wl[i].facility_ID]
                   st == UpdateFlagLoop(st0, chosen, FlagLabel)
               IN /\ companies' = [companies EXCEPT !.site_watchlist = wl]
                  /\ sites' = st.sites
                  /\ timeseries' = st.timeseries
                  /\ campaigns' = st.campaigns
                  /\ dayLog' = chosen
                  /\ pc' = "flagged"
    /\ UNCHANGED << t, now, startDoy, startWeekday, parameters, leaks, tags,
                    active_leaks, crews, ci, allowed_end_time, x_LDAR,
                    current_x, dd, flags, gen_files, simulations,
                    fingerprint, open_files,
                    pool, res >>

\* BaseCrew.visit_site of a follow-up crew at a flagged site: a component
\* scale survey takes the flag down (on the days a screening day follows)
FollowUpSurvey ==
    /\ pc = "flagged"
    /\ t + 1 < FlagDays
    /\ \E k \in 1..Len(sites) :
         /\ sites[k].currently_flagged
         /\ sites' = [sites EXCEPT ![k].currently_flagged = FALSE]
    /\ UNCHANGED << t, now, startDoy, startWeekday, pc, parameters, leaks, tags,
                    active_leaks, crews, ci, allowed_end_time, x_LDAR,
                    current_x, dd, timeseries, campaigns, dayLog, flags,
                    companies, gen_files, simulations,
                    fingerprint, open_files,
                    pool, res >>

\* the next day: TimeCounter.next_day, then deploy_crews empties
\* candidate_flags before the crews leave
FlagNextDay ==
    /\ pc = "flagged"
    /\ t + 1 < FlagDays
    /\ t' = t + 1
    /\ now' = now + MinutesPerDay
    /\ companies' = [companies EXCEPT !.candidate_flags = << >>]
    /\ ci' = 0
    /\ dayLog' = << >>
    /\ pc' = "screen"
    /\ UNCHANGED << startDoy, startWeekday, parameters, sites, leaks, tags,
                    active_leaks, crews, allowed_end_time, x_LDAR, current_x,
                    dd, timeseries, campaigns, flags, gen_files, simulations,
                    fingerprint, open_files,
                    pool, res >>

NextFlag ==
    \/ Screen
    \/ FlagSites
    \/ FollowUpSurvey
    \/ FlagNextDay

SpecFlag == InitFlag /\ [][NextFlag]_vars

\* ------------- the methods package: BaseCompany.deploy_crews, mobile crews
\* SpecDeploy runs the daily deployment of three methods in the order of
\* parameters['methods']: the screening method 'aircraft', whose flagging is
\* taken as update_flag on any sites of the day, the component-scale method
\* 'OGI' and the follow-up method 'OGI_FU' (component scale, is_follow_up).
\* OGI and OGI_FU are BaseCompany objects with the mobile Schedule and
\* BaseCrew crews.  No leaks in these runs: detect_emissions finds nothing.
\* Per-method site fields '<name>_<field>' are site.m[name].<field>.
DeployDays == 5               \* simulated days of the deployment runs
DeployMinInt == 2             \* '<name>_min_int' of the sites, in days
LongSurvey == 500             \* '<name>_time' of a survey longer than a workday
ShortSurvey == 120            \* '<name>_time' of a survey that fits a day
TravelMins == 60              \* config['t_bw_sites']: minutes, one entry
SitesPerCrew == 3             \* get_working_crews(sites_per_crew=3)
DeployMethods == {"OGI", "OGI_FU"}

IsFollowUp(name) == name = "OGI_FU"

DeploySite(id, label, time, min_int, rs) ==
    [ facility_ID |-> id, subtype_code |-> 0, crew_ID |-> label,
      currently_flagged |-> FALSE, flagged_by |-> "None", date_flagged |-> NoDate,
      m |-> [ name \in DeployMethods |->
                [ t_since_last_LDAR |-> 0, surveys_conducted |-> 0,
                  surveys_done_this_year |-> 0, time |-> time,
                  min_int |-> min_int, RS |-> rs ] ] ]

InitDeploy ==
    /\ t = 0
    /\ now = 0
    /\ startDoy = 0
    /\ startWeekday = 0
    /\ pc = "aircraft"
    /\ parameters \in [ n_crews : {0, 1, 2}, route_planning : BOOLEAN,
                        reporting_delay : 0..MaxDelay,
                        min_int : {0, DeployMinInt}, RS : {1, 2} ]
    \* no crew or one crew without route planning, or two crews with planned
    \* routes
    /\ parameters.route_planning <=> parameters.n_crews > 1
    \* the first site's survey may be longer than a workday; assign_agents
    \* labels the sites only if routes are planned
    /\ \E time1 \in {ShortSurvey, LongSurvey},
          label \in IF parameters.route_planning THEN Labelings(parameters.n_crews)
                    ELSE {[s \in SiteIds |-> NoCrew - 1]} :
         sites = [i \in 1..NSites |->
                    DeploySite(i, label[i], IF i = 1 THEN time1 ELSE ShortSurvey,
                               parameters.min_int, parameters.RS)]
    /\ leaks = << >>
    /\ tags = << >>
    /\ active_leaks = {}
    /\ crews = [name \in DeployMethods |->
                  [c \in 1..parameters.n_crews |-> [rollover |-> << >>]]]
    /\ ci = 0
    /\ allowed_end_time = 0
    /\ x_LDAR = 0
    /\ current_x = 0
    \* consider_weather is off: every day is a deployment day at every site
    /\ dd = [s \in SiteIds |-> TRUE]
    /\ timeseries = [ eff_flags |-> [d \in 0..(DeployDays - 1) |-> 0],
                      flags_redund1 |-> [d \in 0..(DeployDays - 1) |-> 0],
                      sites_visited |-> [name \in DeployMethods |->
                                           [d \in 0..(DeployDays - 1) |-> 0]] ]
    /\ campaigns = [n_flags |-> << 0 >>, current_campaign |-> 1]
    /\ dayLog = << >>
    /\ flags = << >>
    /\ companies = << >>
    /\ gen_files = << >>
    /\ simulations = << >>
    /\ fingerprint = << >>
    /\ open_files = {}
    /\ pool = << >>
    /\ res = << >>

\* Schedule.get_due_sites of the mobile company on a list of site records:
\* the filter, then sorted(key=t_since_last_LDAR, reverse=True), a stable sort
get_due_sites(name, site_pool, clock) ==
    LET due(s) ==
            IF IsFollowUp(name)
            THEN TimedeltaDays(clock, s.date_flagged) >= parameters.reporting_delay
            ELSE /\ s.m[name].surveys_done_this_year < s.m[name].RS
                 /\ s.m[name].t_since_last_LDAR >= s.m[name].min_int
        RECURSIVE Filt(_)
        Filt(q) == IF q = << >> THEN << >>
                   ELSE IF due(Head(q)) THEN << Head(q) >> \o Filt(Tail(q))
                        ELSE Filt(Tail(q))
        RECURSIVE Insert(_, _)
        Insert(e, r) ==
            IF r = << >> THEN << e >>
            ELSE IF e.m[name].t_since_last_LDAR >= Head(r).m[name].t_since_last_LDAR
                 THEN << e >> \o r
                 ELSE << Head(r) >> \o Insert(e, Tail(r))
        RECURSIVE Sort(_)
        Sort(q) == IF q = << >> THEN << >> ELSE Insert(Head(q), Sort(Tail(q)))
    IN Sort(Filt(site_pool))

\* Schedule.get_working_crews: math.ceil(n_sites / (n_crews * sites_per_crew)),
\* capped at config['n_crews']
get_working_crews(n_sites, n_crews) ==
    LET n == (n_sites + n_crews * SitesPerCrew - 1) \div (n_crews * SitesPerCrew)
    IN IF n > parameters.n_crews THEN parameters.n_crews ELSE n

\* site_pool[crew_ID::n_crews]
SlicePool(site_pool, crew_ID, n_crews) ==
    LET idx == {i \in 1..Len(site_pool) : (i - 1) >= crew_ID /\ (i - 1 - crew_ID) % n_crews = 0}
    IN [j \in 1..Cardinality(idx) |->
          site_pool[CHOOSE i \in idx : Cardinality({k \in idx : k < i}) = j - 1]]

\* Schedule.get_crew_site_list that slices the pool whether or not routes are
\* planned
get_crew_site_listSliced(site_pool, crew_ID, n_crews) ==
    SlicePool(site_pool, crew_ID, n_crews)

\* Schedule.get_crew_site_list: the sites of the crew's cluster under route
\* planning, else every n_crews-th site from the crew's index on
get_crew_site_list(site_pool, crew_ID, n_crews) ==
    IF parameters.route_planning
    THEN LET RECURSIVE Own(_)
             Own(q) == IF q = << >> THEN << >>
                       ELSE IF Head(q).crew_ID = crew_ID
                            THEN << Head(q) >> \o Own(Tail(q))
                            ELSE Own(Tail(q))
         IN Own(site_pool)
    ELSE SlicePool(site_pool, crew_ID, n_crews)

\* check_visit_time with the travel home taken off a partial survey as well
check_visit_timeTravelHome(survey_mins, travel_to_mins, travel_home_mins, clock, aet) ==
    LET mins_left_in_day == aet - clock
        go_to_site == ~ \/ travel_to_mins >= mins_left_in_day
                        \/ travel_to_mins + travel_home_mins >= mins_left_in_day
        Result(LDAR_mins_onsite) ==
            [ go_to_site |-> go_to_site,
              LDAR_mins_onsite |-> LDAR_mins_onsite,
              LDAR_mins |-> travel_to_mins + LDAR_mins_onsite,
              remaining_mins |-> survey_mins - LDAR_mins_onsite ]
    IN Result(IF ~go_to_site THEN 0
              ELSE IF travel_to_mins + travel_home_mins + survey_mins <= mins_left_in_day
              THEN survey_mins
              ELSE mins_left_in_day - (travel_to_mins + travel_home_mins))

\* Schedule.check_visit_time of the mobile crew
check_visit_time(survey_mins, travel_to_mins, travel_home_mins, clock, aet) ==
    LET Times(mins_left_in_day, go_to_site) ==
            LET Result(LDAR_mins_onsite) ==
                    [ go_to_site |-> go_to_site,
                      LDAR_mins_onsite |-> LDAR_mins_onsite,
                      LDAR_mins |-> travel_to_mins + LDAR_mins_onsite,
                      remaining_mins |-> survey_mins - LDAR_mins_onsite ]
            IN Result(IF ~go_to_site THEN 0
                      ELSE IF travel_to_mins + travel_home_mins + survey_mins
                                 <= mins_left_in_day
                      THEN survey_mins
                      ELSE IF travel_to_mins + survey_mins <= mins_left_in_day
                      THEN survey_mins
                      ELSE mins_left_in_day - travel_to_mins)
    IN Times(aet - clock,
             ~ \/ travel_to_mins >= aet - clock
               \/ travel_to_mins + travel_home_mins >= aet - clock)

\* Schedule.plan_visit of the mobile crew.  "none": no deployment day at the
\* site; "raise": the site is the one of self.rollover, whose remaining
\* minutes are read as self.rollover['site']['remaining_mins'], a key the
\* site record does not have
plan_visit(name, rollover, site, clock, aet) ==
    IF ~dd[site.facility_ID] THEN [kind |-> "none"]
    ELSE IF rollover # << >> /\ site.facility_ID = rollover.site
    THEN [kind |-> "raise"]
    ELSE LET Plan(survey_times) ==
                 [ kind |-> "plan", site |-> site.facility_ID,
                   go_to_site |-> survey_times.go_to_site,
                   travel_to_mins |-> TravelMins,
                   LDAR_mins |-> survey_times.LDAR_mins,
                   remaining_mins |-> survey_times.remaining_mins ]
         IN Plan(check_visit_time(site.m[name].time, TravelMins, TravelMins,
                                  clock, aet))

\* Schedule.start_day of the mobile crew on a non-empty site_pool: the plans
\* of all sites of the pool, the plan chosen by choose_site (the first of the
\* list, which is also the nearest as all travel times are equal; the plan of
\* self.rollover that choose_site takes first is overwritten), and the
\* rollover kept.  est_mins_remaining = - LDAR_mins ends the loop after one
\* site.
start_day(name, rollover, site_pool, clock, aet) ==
    LET Day(raised, Plan_list) ==
            [ raised |-> raised,
              Plan_list |-> Plan_list,
              rollover |-> IF Plan_list # << >> /\ Plan_list[1].remaining_mins > 0
                           THEN Plan_list[1] ELSE rollover ]
        Choose(plans, go) ==
            Day(\E i \in 1..Len(plans) : plans[i].kind = "raise",
                IF go = {} THEN << >>
                ELSE << plans[CHOOSE i \in go : \A j \in go : i <= j] >>)
        Go(plans) ==
            Choose(plans, {i \in 1..Len(plans) :
                             plans[i].kind = "plan" /\ plans[i].go_to_site})
    IN Go([i \in 1..Len(site_pool) |->
             plan_visit(name, rollover, site_pool[i], clock, aet)])

\* BaseCrew.visit_site without the reset of the flag: the visit is logged and
\* counted, currently_flagged is left as it was
visit_siteKeepFlag(st, name, crew_ID, fid) ==
    LET k == SiteIndex(st.sites, fid)
    IN [st EXCEPT
          !.log = Append(@, [ method |-> name, crew |-> crew_ID, facility_ID |-> fid,
                              crew_ID |-> st.sites[k].crew_ID,
                              currently_flagged |-> st.sites[k].currently_flagged,
                              date_flagged |-> st.sites[k].date_flagged,
                              t_since_last_LDAR |-> st.sites[k].m[name].t_since_last_LDAR,
                              clock |-> st.clock ]),
          !.timeseries.sites_visited[name][t] = @ + 1,
          !.sites[k].m[name].surveys_conducted = @ + 1,
          !.sites[k].m[name].surveys_done_this_year = @ + 1,
          !.sites[k].m[name].t_since_last_LDAR = 0]

\* BaseCrew.visit_site on st = [sites, timeseries, log]: a component-scale
\* survey takes the flag down; the visit is counted
visit_site(st, name, crew_ID, fid) ==
    LET k == SiteIndex(st.sites, fid)
    IN [st EXCEPT
          !.log = Append(@, [ method |-> name, crew |-> crew_ID, facility_ID |-> fid,
                              crew_ID |-> st.sites[k].crew_ID,
                              currently_flagged |-> st.sites[k].currently_flagged,
                              date_flagged |-> st.sites[k].date_flagged,
                              t_since_last_LDAR |-> st.sites[k].m[name].t_since_last_LDAR,
                              clock |-> st.clock ]),
          !.sites[k].currently_flagged = FALSE,
          !.timeseries.sites_visited[name][t] = @ + 1,
          !.sites[k].m[name].surveys_conducted = @ + 1,
          !.sites[k].m[name].surveys_done_this_year = @ + 1,
          !.sites[k].m[name].t_since_last_LDAR = 0]

\* BaseCrew.work_a_day of crew crew_ID on its site list, on
\* st = [sites, timeseries, log, clock, crews, raised]
work_a_day(st, name, crew_ID, site_pool) ==
    IF site_pool = << >> \/ st.raised THEN st
    ELSE LET \* end_day: the travel home moves the clock unless routes are
             \* planned
             EndDay(st2) ==
                 [st2 EXCEPT !.clock = IF parameters.route_planning
                                       THEN @ ELSE @ + TravelMins]
             Visit(st1, site_plan) ==
                 [(IF site_plan.remaining_mins = 0
                   THEN visit_site(st1, name, crew_ID, site_plan.site)
                   ELSE st1) EXCEPT !.clock = @ + site_plan.LDAR_mins]
             Work(st1, day) ==
                 IF day.raised THEN [st1 EXCEPT !.raised = TRUE]
                 ELSE IF day.Plan_list = << >> THEN EndDay(st1)
                 ELSE EndDay(Visit(st1, day.Plan_list[1]))
             Start(clock, day) ==
                 Work([st EXCEPT !.clock = clock,
                                 !.crews[name][crew_ID + 1].rollover = day.rollover],
                      day)
             Begin(clock, aet) ==
                 Start(clock, start_day(name, st.crews[name][crew_ID + 1].rollover,
                                        site_pool, clock, aet))
         IN Begin(ReplaceHour(st.clock, StartHour),
                  ReplaceHourMin0(st.clock, EndHour))

\* BaseCompany.deploy_crews of the method whose turn it is
DeployCrews ==
    /\ pc \in DeployMethods
    /\ LET \* the end of deploy_crews, on the state st the crews have left
           Finish(name, st, new_year) ==
               /\ now' = st.clock
               /\ crews' = st.crews
               /\ dayLog' = st.log
               /\ timeseries' = st.timeseries
               /\ IF st.raised
                  THEN /\ pc' = "crashed"
                       /\ sites' = st.sites
                       /\ UNCHANGED flags
                  ELSE /\ sites' = [k \in 1..Len(sites) |->
                                      [st.sites[k] EXCEPT
                                         !.m[name].t_since_last_LDAR = @ + 1,
                                         !.m[name].surveys_done_this_year =
                                             IF new_year THEN 0 ELSE @]]
                       /\ flags' = IF IsFollowUp(name)
                                   THEN LET RECURSIVE Flagged(_)
                                            Flagged(k) ==
                                                IF k > Len(sites) THEN << >>
                                                ELSE IF st.sites[k].currently_flagged
                                                     THEN << st.sites[k].facility_ID >>
                                                            \o Flagged(k + 1)
                                                     ELSE Flagged(k + 1)
                                        IN Flagged(1)
                                   ELSE flags
                       /\ pc' = IF name = "OGI" THEN "OGI_FU" ELSE "next_day"
           End(name, st) ==
               Finish(name, st, DayOfMonth(st.clock) = 1 /\ MonthOf(st.clock) = 1)
           RECURSIVE Crews(_, _, _, _, _)
           Crews(name, st, idx, site_pool, n_working_crews) ==
               IF idx >= n_working_crews THEN st
               ELSE Crews(name,
                          work_a_day(st, name, idx,
                            get_crew_site_list(
                               [i \in 1..Len(site_pool) |->
                                  st.sites[SiteIndex(st.sites, site_pool[i].facility_ID)]],
                               idx, n_working_crews)),
                          idx + 1, site_pool, n_working_crews)
           \* n_sites/(n_crews*sites_per_crew) of get_working_crews is a
           \* ZeroDivisionError when the method has no crew
           Deploy(name, site_pool) ==
               IF parameters.n_crews * SitesPerCrew = 0
               THEN End(name,
                        [ sites |-> sites, timeseries |-> timeseries,
                          log |-> dayLog, clock |-> now, crews |-> crews,
                          raised |-> TRUE ])
               ELSE
               End(name,
                   Crews(name,
                         [ sites |-> sites, timeseries |-> timeseries,
                           log |-> dayLog, clock |-> now, crews |-> crews,
                           raised |-> FALSE ],
                         0, site_pool,
                         get_working_crews(Len(site_pool), parameters.n_crews)))
       IN Deploy(pc, get_due_sites(pc,
                       IF IsFollowUp(pc)
                       THEN [i \in 1..Len(flags) |-> sites[SiteIndex(sites, flags[i])]]
                       ELSE sites,
                       now))
    /\ UNCHANGED << t, startDoy, startWeekday, parameters, leaks, tags,
                    active_leaks, ci, allowed_end_time, x_LDAR, current_x, dd,
                    campaigns, companies, gen_files, simulations,
                    fingerprint, open_files,
                    pool, res >>

\* the screening method's day: update_flag on the site it chooses, if any
AircraftFlags ==
    /\ pc = "aircraft"
    /\ \E chosen \in {{}} \cup {{s} : s \in SiteIds} :
         LET st == UpdateFlagLoop([ sites |-> sites, timeseries |-> timeseries,
                                    campaigns |-> campaigns ],
                                  SetToSeq(chosen), "aircraft")
         IN /\ sites' = st.sites
            /\ timeseries' = st.timeseries
            /\ campaigns' = st.campaigns
    /\ pc' = "OGI"
    /\ UNCHANGED << t, now, startDoy, startWeekday, parameters, leaks, tags,
                    active_leaks, crews, ci, allowed_end_time, x_LDAR,
                    current_x, dd, dayLog, flags, companies, gen_files,
                    simulations,
                    fingerprint, open_files,
                    pool, res >>

\* TimeCounter.next_day
DeployNextDay ==
    /\ pc = "next_day"
    /\ t + 1 < DeployDays
    /\ t' = t + 1
    /\ now' = now + MinutesPerDay
    /\ dayLog' = << >>
    /\ pc' = "aircraft"
    /\ UNCHANGED << startDoy, startWeekday, parameters, sites, leaks, tags,
                    active_leaks, crews, ci, allowed_end_time, x_LDAR,
                    current_x, dd, timeseries, campaigns, flags, companies,
                    gen_files, simulations,
                    fingerprint, open_files,
                    pool, res >>

NextDeploy ==
    \/ AircraftFlags
    \/ DeployCrews
    \/ DeployNextDay

SpecDeploy == InitDeploy /\ [][NextDeploy]_vars

\* ================================================================ build_sims
\* The simulation descriptors of a batch and the generator folder
\* (initialization/build_sims.py, initialization/sites.py).  Programs and
\* simulations are numbered from 0 as in the code; a missing file is << >>.

MaxSims == 2                  \* sim_params['n_simulations'] ranges over 1..MaxSims
MaxPrograms == 2              \* len(programs) ranges over 1..MaxPrograms
MaxDraw == 2                  \* realisations of the leak timeseries of a draw

\* the record of a facility in the program's infrastructure file: the site
\* level parameters differ from program to program
InfrastructureRow(program, id) == [ facility_ID |-> id, OGI_RS |-> program + 1 ]

\* generate_sites(program): the sampled and shuffled sites with the subtype
\* fields and the leak bookkeeping added, the leak timeseries and the initial
\* leaks per facility
generate_sites(program, draw) ==
    [ sites |-> [k \in 1..NSites |->
                   [ facility_ID |-> draw.order[k],
                     OGI_RS |-> InfrastructureRow(program, draw.order[k]).OGI_RS,
                     dist_type |-> "sample",
                     leak_rate_units |-> IF program = 0 THEN "gram/second"
                                         ELSE "kilogram/hour",
                     initial_leaks |-> draw.initial[draw.order[k]],
                     cum_leaks |-> draw.initial[draw.order[k]] + draw.series ]],
      leak_timeseries |-> [s \in SiteIds |-> << draw.series, s >>],
      initial_leaks |-> [s \in SiteIds |-> draw.initial[s]] ]

\* regenerate_sites with the sites returned in the order of the program's
\* infrastructure file instead of the order of prog_0_sites
regenerate_sitesTableOrder(program, prog_0_sites) ==
    LET ids == {prog_0_sites[k].facility_ID : k \in 1..Len(prog_0_sites)}
        of(id) == prog_0_sites[CHOOSE k \in 1..Len(prog_0_sites) :
                                  prog_0_sites[k].facility_ID = id]
        order == SetToSeq(ids)
    IN [k \in 1..Len(order) |->
          [ facility_ID |-> order[k],
            OGI_RS |-> InfrastructureRow(program, order[k]).OGI_RS,
            cum_leaks |-> of(order[k]).cum_leaks,
            initial_leaks |-> of(order[k]).initial_leaks,
            leak_rate_units |-> of(order[k]).leak_rate_units ]]

\* regenerate_sites(program, prog_0_sites): for every site of prog_0_sites, in
\* list order, the program's own record of the facility, updated with the
\* cum_leaks, initial_leaks and leak_rate_units of the input site
regenerate_sites(program, prog_0_sites) ==
    [k \in 1..Len(prog_0_sites) |->
       LET site_or == prog_0_sites[k]
           new_site == InfrastructureRow(program, site_or.facility_ID)
       IN [ facility_ID |-> new_site.facility_ID,
            OGI_RS |-> new_site.OGI_RS,
            cum_leaks |-> site_or.cum_leaks,
            initial_leaks |-> site_or.initial_leaks,
            leak_rate_units |-> site_or.leak_rate_units ]]

\* os.remove of the program-0 files only
RemoveFirstFiles(files) ==
    [f \in DOMAIN files |-> IF f[2] = 0 THEN << >> ELSE files[f]]

\* check_for_generator on the answer 'n': every file of the folder is removed
RemoveFiles(files) == [f \in DOMAIN files |-> << >>]

\* build_sims(programs, sim_params, gen_dir): draws[i] is the outcome of the
\* generate_sites call of simulation i, if it is made.  The result holds the
\* generator folder, the descriptors and, per descriptor, whether its data
\* came from a file and the sites held before the program's turn
build_sims(n_programs, sim_params, files, draws) ==
    LET pregen == sim_params.pregenerate_leaks
        RECURSIVE Programs(_, _, _)
        Programs(i, j, acc) ==
            IF j >= n_programs THEN acc
            ELSE LET acc1 ==
                        IF ~pregen THEN [acc EXCEPT !.cur.sites = << >>]
                        ELSE IF acc.files[<< i, j >>] # << >>
                        THEN [acc EXCEPT !.cur = acc.files[<< i, j >>]]
                        ELSE LET cur == [acc.cur EXCEPT
                                           !.sites = regenerate_sites(j, @)]
                             IN [acc EXCEPT !.cur = cur, !.files[<< i, j >>] = cur]
                 IN Programs(i, j + 1,
                       [acc1 EXCEPT
                          !.simulations =
                              Append(@, [ i |-> i, program |-> j,
                                          pregenerate_leaks |-> pregen,
                                          sites |-> acc1.cur.sites,
                                          leak_timeseries |-> acc1.cur.leak_timeseries,
                                          initial_leaks |-> acc1.cur.initial_leaks,
                                          seed_timeseries |-> acc1.cur.seed_timeseries ]),
                          !.log = Append(@, [ i |-> i, program |-> j,
                                              cached |-> pregen /\ acc.files[<< i, j >>] # << >>,
                                              prog_0_sites |-> acc.cur.sites ])])
        RECURSIVE Sims(_, _)
        Sims(i, acc) ==
            IF i >= sim_params.n_simulations THEN acc
            ELSE LET gen == generate_sites(0, draws[i])
                     cur1 == IF ~pregen
                             THEN [ sites |-> << >>, leak_timeseries |-> << >>,
                                    initial_leaks |-> << >>, seed_timeseries |-> "None" ]
                             ELSE IF acc.files[<< i, 0 >>] = << >>
                             THEN [ sites |-> gen.sites,
                                    leak_timeseries |-> gen.leak_timeseries,
                                    initial_leaks |-> gen.initial_leaks,
                                    seed_timeseries |-> "None" ]
                             ELSE [acc.cur EXCEPT !.seed_timeseries = "None"]
                 IN Sims(i + 1, Programs(i, 0, [acc EXCEPT !.cur = cur1]))
    IN Sims(0, [ files |-> files, simulations |-> << >>, log |-> << >>,
                 cur |-> [ sites |-> << >>, leak_timeseries |-> << >>,
                           initial_leaks |-> << >>, seed_timeseries |-> "None" ] ])

InitBuild ==
    /\ t = 0
    /\ now = 0
    /\ startDoy = 0
    /\ startWeekday = 0
    /\ pc = "check"
    /\ parameters \in [ n_simulations : 1..MaxSims, n_programs : 1..MaxPrograms,
                        pregenerate_leaks : BOOLEAN,
                        infrastructure_file : {"facilities_a", "facilities_b"} ]
    /\ sites = << >>
    /\ leaks = << >>
    /\ tags = << >>
    /\ active_leaks = {}
    /\ crews = << >>
    /\ ci = 0
    /\ allowed_end_time = 0
    /\ x_LDAR = 0
    /\ current_x = 0
    /\ dd = << >>
    /\ timeseries = << >>
    /\ campaigns = << >>
    /\ dayLog = << >>
    /\ flags = << >>
    /\ companies = << >>
    \* a new installation: the generator folder holds no file
    /\ gen_files = [f \in (0..(MaxSims - 1)) \X (0..(MaxPrograms - 1)) |-> << >>]
    /\ simulations = << >>
    /\ fingerprint = [ sites |-> << >>, params |-> << >> ]
    /\ open_files = {}
    /\ pool = << >>
    /\ res = << >>

\* check_for_generator: with *.p files in the folder the user is asked
\* whether to use them; on 'n' they are removed, sites.p and params.p too
CheckForGenerator ==
    /\ pc = "check"
    /\ \E answer \in {"y", "n"} :
         IF /\ parameters.pregenerate_leaks
            /\ \/ \E f \in DOMAIN gen_files : gen_files[f] # << >>
               \/ fingerprint.sites # << >>
               \/ fingerprint.params # << >>
            /\ answer = "n"
         THEN /\ gen_files' = RemoveFiles(gen_files)
              /\ fingerprint' = [ sites |-> << >>, params |-> << >> ]
         ELSE UNCHANGED << gen_files, fingerprint, open_files,
                    pool, res >>
    /\ pc' = "build"
    /\ UNCHANGED << t, now, startDoy, startWeekday, parameters, sites, leaks,
                    tags, active_leaks, crews, ci, allowed_end_time, x_LDAR,
                    current_x, dd, timeseries, campaigns, dayLog, flags,
                    companies, simulations, open_files,
                    pool, res >>

\* pd.read_csv(in_dir / sites_file).to_dict('records'): the facility list of
\* the first program's infrastructure file
sim_sites(sim_params) ==
    [k \in 1..NSites |->
       [ facility_ID |-> k, infrastructure_file |-> sim_params.infrastructure_file ]]

\* the test of init_generator_files with the parameters left out
StaleSites(old_params, old_sites, sim_params) ==
    old_sites # sim_sites(sim_params)

\* init_generator_files: old_params != sim_params or old_sites != sim_sites
Stale(old_params, old_sites, sim_params) ==
    old_params # sim_params \/ old_sites # sim_sites(sim_params)

\* init_generator_files: with *.p files in the folder, sites.p and params.p
\* are loaded (both None if one is not found) and, if they are not the
\* current ones, every *.p file is removed; then sites.p and params.p are
\* written.  dayLog notes whether the files were removed
InitGeneratorFiles ==
    /\ pc = "check"
    /\ parameters.pregenerate_leaks
    /\ LET found == fingerprint.sites # << >> /\ fingerprint.params # << >>
           remove ==
               /\ \/ \E f \in DOMAIN gen_files : gen_files[f] # << >>
                  \/ fingerprint.sites # << >>
                  \/ fingerprint.params # << >>
               /\ Stale(IF found THEN fingerprint.params ELSE << >>,
                        IF found THEN fingerprint.sites ELSE << >>,
                        parameters)
       IN /\ gen_files' = IF remove THEN RemoveFiles(gen_files) ELSE gen_files
          /\ dayLog' = << [ step |-> "init_generator_files", removed |-> remove ] >>
    /\ fingerprint' = [ sites |-> sim_sites(parameters), params |-> parameters ]
    /\ pc' = "build"
    /\ UNCHANGED << t, now, startDoy, startWeekday, parameters, sites, leaks,
                    tags, active_leaks, crews, ci, allowed_end_time, x_LDAR,
                    current_x, dd, timeseries, campaigns, flags, companies,
                    simulations, open_files, pool, res >>

\* build_sims, the whole call
BuildSims ==
    /\ pc = "build"
    \* the random outcome of one generate_sites call: the shuffled order of the
    \* sampled sites, the initial leaks of each site and the realisation of
    \* the leak timeseries
    /\ \E draws \in [0..(parameters.n_simulations - 1) ->
                       [ order : {o \in [1..NSites -> SiteIds] :
                                    \A a, b \in 1..NSites : o[a] = o[b] => a = b},
                         initial : {[s \in SiteIds |-> 0],
                                    [s \in SiteIds |-> IF s = 1 THEN 1 ELSE 0]},
                         series : 1..MaxDraw ]] :
         LET built == build_sims(parameters.n_programs, parameters, gen_files, draws)
         IN /\ gen_files' = built.files
            /\ simulations' = built.simulations
            /\ dayLog' = built.log
    /\ pc' = "built"
    /\ UNCHANGED << t, now, startDoy, startWeekday, parameters, sites, leaks,
                    tags, active_leaks, crews, ci, allowed_end_time, x_LDAR,
                    current_x, dd, timeseries, campaigns, flags, companies,
                    fingerprint, open_files,
                    pool, res >>

\* the next batch, with the same or other numbers of programs and simulations
NewBatch ==
    /\ pc = "built"
    /\ parameters' \in [ n_simulations : 1..MaxSims, n_programs : 1..MaxPrograms,
                         pregenerate_leaks : BOOLEAN,
                         infrastructure_file : {"facilities_a", "facilities_b"} ]
    /\ simulations' = << >>
    /\ dayLog' = << >>
    /\ pc' = "check"
    /\ UNCHANGED << t, now, startDoy, startWeekday, sites, leaks, tags,
                    active_leaks, crews, ci, allowed_end_time, x_LDAR,
                    current_x, dd, timeseries, campaigns, flags, companies,
                    gen_files, fingerprint, open_files,
                    pool, res >>

NextBuild ==
    \/ CheckForGenerator
    \/ InitGeneratorFiles
    \/ BuildSims
    \/ NewBatch

SpecBuild == InitBuild /\ [][NextBuild]_vars

\* =================================================== the pool of simulations
\* __main__ of ldar_sim_main.py from the generator folder to the batch report:
\* check_for_generator / init_generator_files, build_sims one simulation at a
\* time (open_files holds the pregen file the orchestrator, process 0, has
\* open; the workers are the processes 1, 2, ...), then
\* mp.Pool(n_processes).starmap(ldar_sim_run, simulations) and the reporting.
\* ldar_sim_run itself is not part of the sources: a task ends with a result
\* or with an uncaught error

MaxProcesses == 2

\* the pool is opened by the statement after build_sims has returned
pool_startedEarly(position) == position \in {"build", "pool"}

pool_started(position) == position = "pool"

InitPool ==
    /\ t = 0
    /\ now = 0
    /\ startDoy = 0
    /\ startWeekday = 0
    /\ pc = "check"
    /\ parameters \in [ n_simulations : 1..MaxSims, n_programs : 1..MaxPrograms,
                        pregenerate_leaks : BOOLEAN,
                        infrastructure_file : {"facilities_a"},
                        n_processes : 1..MaxProcesses ]
    /\ sites = << >>
    /\ leaks = << >>
    /\ tags = << >>
    /\ active_leaks = {}
    /\ crews = << >>
    /\ ci = 0
    /\ allowed_end_time = 0
    /\ x_LDAR = 0
    /\ current_x = 0
    /\ dd = << >>
    /\ timeseries = << >>
    /\ campaigns = << >>
    /\ dayLog = << >>
    /\ flags = << >>
    /\ companies = << >>
    \* the generator folder as earlier batches of a simulations and b programs
    \* left it, with the fingerprint of this batch or without one
    /\ \E a \in 0..MaxSims, b \in 0..MaxPrograms :
         gen_files = [f \in (0..(MaxSims - 1)) \X (0..(MaxPrograms - 1)) |->
                        IF f[1] < a /\ f[2] < b
                        THEN [ sites |-> << >>, world |-> f[1] ]
                        ELSE << >>]
    /\ fingerprint \in { [ sites |-> << >>, params |-> << >> ],
                         [ sites |-> sim_sites(parameters), params |-> parameters ] }
    /\ simulations = << >>
    /\ open_files = {}
    /\ pool = [k \in 1..(parameters.n_simulations * parameters.n_programs) |-> "queued"]
    /\ res = << >>

\* build_sims, one pass of the inner loop up to the open(file_loc, ...): the
\* pregen file of simulation i and program j is opened "rb" if it is there and
\* "wb" if not.  open() takes no lock
BuildOpen ==
    /\ pc = "build"
    /\ parameters.pregenerate_leaks
    /\ Len(simulations) < parameters.n_simulations * parameters.n_programs
    /\ \A a \in open_files : a.process # 0
    /\ LET i == Len(simulations) \div parameters.n_programs
           j == Len(simulations) % parameters.n_programs
       IN open_files' = open_files \cup
             { [ file |-> << i, j >>,
                 mode |-> IF gen_files[<< i, j >>] # << >> THEN "rb" ELSE "wb",
                 process |-> 0, lock |-> FALSE ] }
    /\ UNCHANGED << t, now, startDoy, startWeekday, pc, parameters, sites, leaks,
                    tags, active_leaks, crews, ci, allowed_end_time, x_LDAR,
                    current_x, dd, timeseries, campaigns, dayLog, flags,
                    companies, gen_files, simulations, fingerprint, pool, res >>

\* build_sims, the rest of the pass: pickle.load or pickle.dump is done and the
\* file object is dropped, the simulation is appended; after the last pass
\* build_sims returns and the pool is opened
BuildAppend ==
    /\ pc = "build"
    /\ Len(simulations) < parameters.n_simulations * parameters.n_programs
    /\ LET i == Len(simulations) \div parameters.n_programs
           j == Len(simulations) % parameters.n_programs
           mine == {a \in open_files : a.process = 0}
       IN /\ parameters.pregenerate_leaks => mine # {}
          /\ open_files' = open_files \ mine
          /\ gen_files' = IF \E a \in mine : a.mode = "wb"
                          THEN [gen_files EXCEPT ![<< i, j >>] =
                                  [ sites |-> << >>, world |-> i ]]
                          ELSE gen_files
          /\ simulations' = Append(simulations, [ i |-> i, program |-> j ])
          /\ pc' = IF Len(simulations) + 1
                        = parameters.n_simulations * parameters.n_programs
                   THEN "pool" ELSE "build"
    /\ UNCHANGED << t, now, startDoy, startWeekday, parameters, sites, leaks,
                    tags, active_leaks, crews, ci, allowed_end_time, x_LDAR,
                    current_x, dd, timeseries, campaigns, dayLog, flags,
                    companies, fingerprint, pool, res >>

\* a worker of the pool takes the next simulation; at most n_processes run at
\* a time.  With pregenerated leaks the worker loads the pickled world
StartTask ==
    /\ pool_started(pc)
    /\ \E k \in 1..Len(simulations) :
         /\ pool[k] = "queued"
         /\ \A h \in 1..(k - 1) : pool[h] # "queued"
         /\ Cardinality({h \in DOMAIN pool : pool[h] = "running"})
               < parameters.n_processes
         /\ pool' = [pool EXCEPT ![k] = "running"]
         /\ open_files' =
               IF parameters.pregenerate_leaks
               THEN open_files \cup
                      { [ file |-> << simulations[k].i, simulations[k].program >>,
                          mode |-> "rb", process |-> k, lock |-> FALSE ] }
               ELSE open_files
    /\ UNCHANGED << t, now, startDoy, startWeekday, pc, parameters, sites, leaks,
                    tags, active_leaks, crews, ci, allowed_end_time, x_LDAR,
                    current_x, dd, timeseries, campaigns, dayLog, flags,
                    companies, gen_files, simulations, fingerprint, res >>

\* ldar_sim_run returns its result or raises
FinishTask ==
    /\ \E k \in DOMAIN pool, outcome \in {"result", "raised"} :
         /\ pool[k] = "running"
         /\ pool' = [pool EXCEPT ![k] = outcome]
         /\ open_files' = {a \in open_files : a.process # k}
    /\ UNCHANGED << t, now, startDoy, startWeekday, pc, parameters, sites, leaks,
                    tags, active_leaks, crews, ci, allowed_end_time, x_LDAR,
                    current_x, dd, timeseries, campaigns, dayLog, flags,
                    companies, gen_files, simulations, fingerprint, res >>

\* res = p.starmap(ldar_sim_run, simulations): with every task done the
\* results are returned in the order of the simulations; the error of a task
\* is raised again in the orchestrator, where nothing catches it: the pool is
\* terminated by the with statement and res is never assigned
Starmap ==
    /\ pc = "pool"
    /\ IF \E k \in DOMAIN pool : pool[k] = "raised"
       THEN /\ pc' = "crashed"
            /\ pool' = [k \in DOMAIN pool |->
                          IF pool[k] \in {"queued", "running"}
                          THEN "terminated" ELSE pool[k]]
            /\ open_files' = {}
            /\ res' = res
       ELSE /\ \A k \in DOMAIN pool : pool[k] = "result"
            /\ pc' = "report"
            /\ res' = [k \in DOMAIN pool |->
                         [ i |-> simulations[k].i,
                           program |-> simulations[k].program ]]
            /\ UNCHANGED << pool, open_files >>
    /\ UNCHANGED << t, now, startDoy, startWeekday, parameters, sites, leaks,
                    tags, active_leaks, crews, ci, allowed_end_time, x_LDAR,
                    current_x, dd, timeseries, campaigns, dayLog, flags,
                    companies, gen_files, simulations, fingerprint >>

\* the batch reporting over res and the metadata file
BatchReport ==
    /\ pc = "report"
    /\ dayLog' = << [ step |-> "batch_report", programs |-> {res[k].program : k \in DOMAIN res},
                      results |-> Len(res) ] >>
    /\ pc' = "done"
    /\ UNCHANGED << t, now, startDoy, startWeekday, parameters, sites, leaks,
                    tags, active_leaks, crews, ci, allowed_end_time, x_LDAR,
                    current_x, dd, timeseries, campaigns, flags, companies,
                    gen_files, simulations, fingerprint, open_files, pool, res >>

NextPool ==
    \/ CheckForGenerator
    \/ InitGeneratorFiles
    \/ BuildOpen
    \/ BuildAppend
    \/ StartTask
    \/ FinishTask
    \/ Starmap
    \/ BatchReport

SpecPool == InitPool /\ [][NextPool]_vars

\* ==================================================== a world generated twice
\* gen_world of virtual_world.py run twice on the same inputs (the facility
\* list and its mid point, the hourly weather file), the wall clock moving on
\* between the two runs.  now is the month of the wall clock, timeseries
\* collects the prepared weather of each run

WeatherDays == 2

\* TimezoneFinder().timezone_at: the zone of the facilities' mid point, as its
\* standard offset in hours and whether it observes daylight saving time
timezone_at(location) ==
    IF location = "Alberta"
    THEN [ name |-> "America/Edmonton", standard |-> -7, dst |-> TRUE ]
    ELSE [ name |-> "America/Regina", standard |-> -6, dst |-> FALSE ]

\* get_UTC_offset: datetime.now(tz).utcoffset() in hours, the offset in force at
\* the moment of the run (daylight saving time from April to October)
get_UTC_offset(location, month) ==
    LET tz == timezone_at(location)
    IN IF tz.dst /\ month \in 4..10 THEN tz.standard + 1 ELSE tz.standard

\* prepare_weather for one variable and one grid cell:
\* reshape(roll(hourly, -int(UTC_offset)), (days, 24))
prepare_weather(weather_data, UTC_offset) ==
    LET n == Len(weather_data)
        shift == 0 - UTC_offset
        rolled == [j \in 1..n |-> weather_data[((j - 1 - shift + 2 * n) % n) + 1]]
    IN [ UTC_ofset |-> UTC_offset,
         u10 |-> [d \in 1..(n \div HoursPerDay) |->
                    [h \in 1..HoursPerDay |-> rolled[(d - 1) * HoursPerDay + h]]] ]

InitRerun ==
    /\ t = 0
    /\ now \in 1..12
    /\ startDoy = 0
    /\ startWeekday = 0
    /\ pc = "gen_world"
    \* the hourly series of the weather file: the wind rises at hour front
    /\ \E front \in 0..(WeatherDays * HoursPerDay) :
         parameters \in [ location : {"Alberta", "Saskatchewan"},
                          weather_data : {[h \in 1..(WeatherDays * HoursPerDay) |->
                                             IF h <= front THEN 0 ELSE 1]} ]
    /\ sites = << >>
    /\ leaks = << >>
    /\ tags = << >>
    /\ active_leaks = {}
    /\ crews = << >>
    /\ ci = 0
    /\ allowed_end_time = 0
    /\ x_LDAR = 0
    /\ current_x = 0
    /\ dd = << >>
    /\ timeseries = << >>
    /\ campaigns = << >>
    /\ dayLog = << >>
    /\ flags = << >>
    /\ companies = << >>
    /\ gen_files = << >>
    /\ simulations = << >>
    /\ fingerprint = << >>
    /\ open_files = {}
    /\ pool = << >>
    /\ res = << >>

\* gen_world, the loading of the weather
GenWorld ==
    /\ pc = "gen_world"
    /\ Len(timeseries) < 2
    /\ timeseries' = Append(timeseries,
                            prepare_weather(parameters.weather_data,
                                            get_UTC_offset(parameters.location, now)))
    /\ dayLog' = Append(dayLog, now)
    /\ pc' = "done"
    /\ UNCHANGED << t, now, startDoy, startWeekday, parameters, sites, leaks,
                    tags, active_leaks, crews, ci, allowed_end_time, x_LDAR,
                    current_x, dd, campaigns, flags, companies, gen_files,
                    simulations, fingerprint, open_files, pool, res >>

\* the same inputs are run again, at any later time
RunAgain ==
    /\ pc = "done"
    /\ Len(timeseries) < 2
    /\ now' \in 1..12
    /\ pc' = "gen_world"
    /\ UNCHANGED << t, startDoy, startWeekday, parameters, sites, leaks, tags,
                    active_leaks, crews, ci, allowed_end_time, x_LDAR,
                    current_x, dd, timeseries, campaigns, dayLog, flags,
                    companies, gen_files, simulations, fingerprint, open_files,
                    pool, res >>

NextRerun ==
    \/ GenWorld
    \/ RunAgain

SpecRerun == InitRerun /\ [][NextRerun]_vars

\* ========================================================= single calls
\* Functions of the program called once on inputs drawn from bounded sets:
\* parameters holds the call and its arguments, dayLog the returned value

GridLon == 2

\* WeatherLookup.deployment_days for one day and one row of GridLon cells:
\* temps, winds and precip are indexed [day, lat, lon], the result
\* [lon, lat, day].  A threshold missing from the method (or 0) leaves the
\* built-in envelope [0, 0]
deployment_days(temps, winds, precip, method) ==
    LET min_temp == IF method.min_temp # 0 THEN method.min_temp ELSE 0
        max_temp == IF method.min_temp # 0 THEN 100 ELSE 0
        min_wind == 0
        max_wind == IF method.max_wind # 0 THEN method.max_wind ELSE 0
        min_precip == IF method.max_precip # 0 THEN -10 ELSE 0
        max_precip == IF method.max_precip # 0 THEN method.max_precip ELSE 0
        bool_temp(day, lat, lon) ==
            min_temp <= temps[day][lat][lon] /\ temps[day][lat][lon] <= max_temp
        bool_wind(day, lat, lon) ==
            min_wind <= temps[day][lat][lon] /\ temps[day][lat][lon] <= max_wind
        bool_precip(day, lat, lon) ==
            min_precip <= temps[day][lat][lon] /\ temps[day][lat][lon] <= max_precip
    IN [c \in (1..GridLon) \X {1} \X {1} |->
          /\ bool_temp(c[3], c[2], c[1])
          /\ bool_wind(c[3], c[2], c[1])
          /\ bool_precip(c[3], c[2], c[1])]

\* SchedCrew.get_work_hours followed by the first lines of Schedule.start_day.
\* Hours are counted in quarters of an hour (4 is one hour, 4 * 24 the day)
\* and are multiples of half an hour, so that (24 - work_hours) / 2 is exact.
\* crew holds work_hours and the window (start_hour, end_hour), << >> for the
\* None of __init__; int(None) is a TypeError.  start_of_work and
\* allowed_end_time are the whole hours int(start_hour) and int(end_hour)
\* that replace(hour=...) sets on the clock
get_work_hours(crew, config, daylight_hours) ==
    LET work_hours == IF config.consider_daylight /\ daylight_hours <= config.max_workday
                      THEN daylight_hours
                      ELSE config.max_workday
        feasible == work_hours < 4 * HoursPerDay /\ work_hours # 0
        window == IF feasible
                  THEN [ start_hour |-> (4 * HoursPerDay - work_hours) \div 2,
                         end_hour |-> (4 * HoursPerDay - work_hours) \div 2 + work_hours ]
                  ELSE crew.window
    IN [ work_hours |-> work_hours,
         daylight_hours |-> daylight_hours,
         window |-> window,
         printed |-> ~feasible,
         raised |-> window = << >>,
         start_of_work |-> IF window = << >> THEN 0 ELSE window.start_hour \div 4,
         allowed_end_time |-> IF window = << >> THEN 0 ELSE window.end_hour \div 4,
         est_mins_remaining |-> IF window = << >> THEN 0
                                ELSE ((window.end_hour - window.start_hour)
                                        * MinutesPerHour) \div 4 ]

\* a crew starts its next day: get_work_hours and the start of start_day
CallGetWorkHours ==
    /\ pc = "call"
    /\ parameters.call = "get_work_hours"
    /\ t < Timesteps
    \* 0, 6, 6.5, 7.5, 12 and 24 hours of daylight
    /\ \E daylight_hours \in {0, 24, 26, 30, 48, 96} :
         crews' = get_work_hours(crews, parameters.config, daylight_hours)
    /\ t' = t + 1
    /\ pc' = IF crews'.raised THEN "crashed" ELSE "call"
    /\ UNCHANGED << now, startDoy, startWeekday, parameters, sites, leaks,
                    tags, active_leaks, ci, allowed_end_time, x_LDAR,
                    current_x, dd, timeseries, campaigns, dayLog, flags,
                    companies, gen_files, simulations, fingerprint, open_files,
                    pool, res >>

\* Parameter values: a leaf is [type, value], a dictionary [type |-> "dict",
\* items |-> the function from its keys to values]
default_program_parameters ==
    [ type |-> "dict",
      items |-> [ parameter_level |-> [ type |-> "str", value |-> "program" ],
                  repair_delay |-> [ type |-> "int", value |-> "14" ],
                  operator |->
                      [ type |-> "dict",
                        items |-> [ consider_operator |-> [ type |-> "bool", value |-> "False" ],
                                    NRd |-> [ type |-> "int", value |-> "150" ] ] ] ] ]

\* check_types: what it prints and whether it calls sys.exit()
RECURSIVE check_types(_, _, _, _)
check_types(default, test, omit_keys, fatal) ==
    IF default.type = test.type
    THEN IF test.type = "dict"
         THEN LET Sub(i) ==
                      IF i \notin DOMAIN default.items
                      THEN [ printed |-> {<< "key not in default parameters", i >>},
                             exit |-> fatal ]
                      ELSE check_types(default.items[i], test.items[i], omit_keys, fatal)
              IN [ printed |-> UNION {Sub(i).printed : i \in DOMAIN test.items \ omit_keys},
                   exit |-> \E i \in DOMAIN test.items \ omit_keys : Sub(i).exit ]
         ELSE [ printed |-> {}, exit |-> FALSE ]
    ELSE [ printed |-> {<< "Parameter type mismatch", default.type, test.type >>},
           exit |-> fatal ]

\* dict.update: the keys of other replace those of the dictionary, whole
\* values at a time
update(dictionary, other) ==
    [ type |-> "dict",
      items |-> [k \in DOMAIN dictionary.items \cup DOMAIN other.items |->
                   IF k \in DOMAIN other.items THEN other.items[k]
                   ELSE dictionary.items[k]] ]

\* InputManager.parse_parameters on one parameter file that names its
\* parameter_level (program, method or another word) and holds no methods:
\* the programs it installs, what was printed, and whether sys.exit was called
parse_parameters(new_parameters) ==
    LET level == new_parameters.items["parameter_level"].value
        checked == check_types(default_program_parameters, new_parameters,
                               {"methods"}, FALSE)
    IN IF level = "program"
       THEN [ exit |-> checked.exit,
              printed |-> checked.printed,
              programs |-> IF checked.exit THEN << >>
                           ELSE << update(default_program_parameters, new_parameters) >> ]
       ELSE IF level = "method"
       THEN [ exit |-> FALSE, printed |-> {}, programs |-> << >> ]
       ELSE [ exit |-> TRUE,
              printed |-> {<< "supplied parameter_level is not possible to parse" >>},
              programs |-> << >> ]

\* the parameter files of the calls: a level, and optionally a repair_delay
\* (an int or a str), an operator dictionary with some of its keys (NRd an int
\* or a str) and a key that no default has
ParameterFiles ==
    LET Opt(key, values) == {<< >>} \cup {key :> v : v \in values}
        operators ==
            { [ type |-> "dict", items |-> a @@ b ] :
                 a \in Opt("NRd", { [ type |-> "int", value |-> "200" ],
                                    [ type |-> "str", value |-> "200" ] }),
                 b \in Opt("consider_operator", { [ type |-> "bool", value |-> "True" ] }) }
              \ { [ type |-> "dict", items |-> << >> ] }
    IN { [ type |-> "dict",
           items |-> ("parameter_level" :> [ type |-> "str", value |-> level ])
                       @@ rd @@ op @@ unknown ] :
            level \in {"program", "method", "site"},
            rd \in Opt("repair_delay", { [ type |-> "int", value |-> "7" ],
                                         [ type |-> "str", value |-> "7" ] }),
            op \in Opt("operator", operators),
            unknown \in Opt("repair_colour", { [ type |-> "str", value |-> "red" ] }) }

\* input_manager.parse_parameters(...) at the start of the program
CallParseParameters ==
    /\ pc = "call"
    /\ parameters.call = "parse_parameters"
    /\ dayLog' = << parse_parameters(parameters.new_parameters) >>
    /\ pc' = IF dayLog'[1].exit THEN "exit" ELSE "returned"
    /\ UNCHANGED << t, now, startDoy, startWeekday, parameters, sites, leaks,
                    tags, active_leaks, crews, ci, allowed_end_time, x_LDAR,
                    current_x, dd, timeseries, campaigns, flags, companies,
                    gen_files, simulations, fingerprint, open_files, pool, res >>

VisitMins == 3

\* site_plan = self.check_visit_time(...) with the crew's clock and allowed
\* end time
CallCheckVisitTime ==
    /\ pc = "call"
    /\ parameters.call = "check_visit_time"
    /\ dayLog' = << check_visit_time(parameters.survey_mins, parameters.travel_to_mins,
                                     parameters.travel_home_mins, parameters.current_date,
                                     parameters.allowed_end_time) >>
    /\ pc' = "returned"
    /\ UNCHANGED << t, now, startDoy, startWeekday, parameters, sites, leaks,
                    tags, active_leaks, crews, ci, allowed_end_time, x_LDAR,
                    current_x, dd, timeseries, campaigns, flags, companies,
                    gen_files, simulations, fingerprint, open_files, pool, res >>

\* BaseCompany.flag_sites on the measurements of one site, those of earlier
\* calls and today's last: the watchlist is updated and sorted, then the loop
\* over target_sites indexes a key of the watchlist and raises
CallFlagSites ==
    /\ pc = "call"
    /\ parameters.call = "flag_sites"
    /\ companies' =
          [ site_watchlist |->
              SortByRate(UpdateWatchlistBase(<< >>,
                 [i \in 1..Len(parameters.rates) |->
                    [ site |-> 1, site_measured_rate |-> parameters.rates[i] ]])) ]
    /\ pc' = IF companies'.site_watchlist = << >> THEN "returned" ELSE "crashed"
    /\ UNCHANGED << t, now, startDoy, startWeekday, parameters, sites, leaks,
                    tags, active_leaks, crews, ci, allowed_end_time, x_LDAR,
                    current_x, dd, timeseries, campaigns, dayLog, flags,
                    gen_files, simulations, fingerprint, open_files, pool, res >>

\* the calls and their arguments
CallInputs ==
    [ call : {"flag_sites"},
      interaction_priority : {"threshold", "proportion"},
      threshold : FlagThresholds,
      redundancy_filter : {"recent", "max", "mean"},
      rates : UNION {[1..n -> FlagRates] : n \in 1..3} ]
    \cup
    [ call : {"check_visit_time"},
      survey_mins : 0..VisitMins, travel_to_mins : 0..VisitMins,
      travel_home_mins : 0..VisitMins,
      \* from one minute after the allowed end time back to the day's start
      current_date : 0..(2 * VisitMins + 2),
      allowed_end_time : {2 * VisitMins + 1} ]
    \cup
    [ call : {"parse_parameters"}, new_parameters : ParameterFiles ]
    \cup
    [ call : {"get_work_hours"},
      \* a max_workday of 0, 8, 8.5, 10 and 24 hours
      config : [ consider_daylight : BOOLEAN, max_workday : {0, 32, 34, 40, 96} ] ]
    \cup
    [ call : {"deployment_days"},
      temps : [{1} -> [{1} -> [1..GridLon -> {-5, 5}]]],
      winds : [{1} -> [{1} -> [1..GridLon -> {2, 12}]]],
      precip : [{1} -> [{1} -> [1..GridLon -> {0, 3}]]],
      method : [ min_temp : {0, -8}, max_wind : {0, 10}, max_precip : {0, 1} ] ]

InitCalls ==
    /\ t = 0
    /\ now = 0
    /\ startDoy = 0
    /\ startWeekday = 0
    /\ pc = "call"
    /\ parameters \in CallInputs
    /\ sites = << >>
    /\ leaks = << >>
    /\ tags = << >>
    /\ active_leaks = {}
    \* Schedule.__init__: work_hours, start_hour and end_hour are None
    /\ crews = [ work_hours |-> << >>, window |-> << >> ]
    /\ ci = 0
    /\ allowed_end_time = 0
    /\ x_LDAR = 0
    /\ current_x = 0
    /\ dd = << >>
    /\ timeseries = << >>
    /\ campaigns = << >>
    /\ dayLog = << >>
    /\ flags = << >>
    /\ companies = << >>
    /\ gen_files = << >>
    /\ simulations = << >>
    /\ fingerprint = << >>
    /\ open_files = {}
    /\ pool = << >>
    /\ res = << >>

\* self.deployment_days = self.state['weather'].deployment_days(...)
CallDeploymentDays ==
    /\ pc = "call"
    /\ parameters.call = "deployment_days"
    /\ dd' = deployment_days(parameters.temps, parameters.winds,
                             parameters.precip, parameters.method)
    /\ pc' = "returned"
    /\ UNCHANGED << t, now, startDoy, startWeekday, parameters, sites, leaks,
                    tags, active_leaks, crews, ci, allowed_end_time, x_LDAR,
                    current_x, timeseries, campaigns, dayLog, flags, companies,
                    gen_files, simulations, fingerprint, open_files, pool, res >>

NextCalls ==
    \/ CallDeploymentDays
    \/ CallGetWorkHours
    \/ CallParseParameters
    \/ CallCheckVisitTime
    \/ CallFlagSites

SpecCalls == InitCalls /\ [][NextCalls]_vars

\* ================================================================ truck
\* The days of the truck company (model_code/truck_company.py) and its crews
\* (model_code/truck_crew.py).  There are no leaks in these runs: visit_site
\* detects nothing and proposes no flag, so flag_sites is not called.
MaxVisits == 3             \* visits of a day after which the day is not followed further
\* state['offsite_times'] of these runs: one entry, in minutes
TruckOffsiteTimes == {30}
\* the speeds np.random.choice([70,80,90,100]) draws in these runs
TruckSpeeds == {70, 100}

TruckSite(id, label, time, min_int, rs) ==
    [ facility_ID |-> id, label |-> label,
      x |-> 21 * id,             \* site['lon'], km from the home base
      truck_time |-> time, truck_min_int |-> min_int, truck_RS |-> rs,
      truck_t_since_last_LDAR |-> 0, truck_surveys_conducted |-> 0,
      attempted_today_truck |-> FALSE, surveys_done_this_year_truck |-> 0,
      truck_missed_leaks |-> 0 ]

InitTruck ==
    /\ t = 0
    /\ now = 0
    /\ startDoy = 0
    /\ startWeekday = 0
    /\ pc = "truck_start"
    /\ parameters \in [ geography : BOOLEAN, route_planning : BOOLEAN,
                        n_crews : {1, 2} ]
    \* routes are planned between facilities that have a location
    /\ parameters.route_planning => parameters.geography
    /\ \E label \in Labelings(parameters.n_crews), time2 \in {30, 120},
          min_int \in MinInts, rs \in Frequencies :
         sites = [i \in 1..NSites |->
                    TruckSite(i, label[i], IF i = 2 THEN time2 ELSE 30, min_int, rs)]
    /\ leaks = << >>
    /\ tags = << >>
    /\ active_leaks = {}
    /\ crews = [c \in 1..parameters.n_crews |-> [worked_today |-> FALSE]]
    /\ ci = 1
    /\ allowed_end_time = 0
    \* scheduling['LDAR_crew_init_location']: the home base
    /\ x_LDAR = HomeBaseX
    /\ current_x = HomeBaseX
    /\ dd \in [SiteIds -> BOOLEAN]
    /\ timeseries = [ truck_sites_visited |-> [d \in 0..(Timesteps - 1) |-> 0] ]
    /\ campaigns = << >>
    /\ dayLog = << >>
    /\ flags = << >>
    /\ companies = << >>
    /\ gen_files = << >>
    /\ simulations = << >>
    /\ fingerprint = << >>
    /\ open_files = {}
    /\ pool = << >>
    /\ res = << >>

\* sorted(self.state['sites'], key=truck_t_since_last_LDAR, reverse=True)
RECURSIVE TruckSortByNeglect(_)
TruckSortByNeglect(ss) ==
    LET RECURSIVE Insert(_, _)
        Insert(e, r) ==
            IF r = << >> THEN << e >>
            ELSE IF e.truck_t_since_last_LDAR > Head(r).truck_t_since_last_LDAR
                 THEN << e >> \o r
                 ELSE << Head(r) >> \o Insert(e, Tail(r))
    IN IF ss = << >> THEN << >>
       ELSE Insert(ss[Len(ss)], TruckSortByNeglect(SubSeq(ss, 1, Len(ss) - 1)))

\* truck_crew.choose_site: the loop over the neglect-sorted sites and the
\* route_planning block.  The result is [ss, Site_T, found, pick,
\* travel_time, hour23]; travel times are kept as 60 * wt (see ScaledWt) and
\* travel_time is in minutes
truck_crew_choose_site(crew_id, x, speed) ==
    LET Count(site) ==
            [site EXCEPT !.truck_surveys_conducted = @ + 1,
                         !.surveys_done_this_year_truck = @ + 1,
                         !.truck_t_since_last_LDAR = 0]
        RECURSIVE Loop(_, _)
        Loop(st, i) ==
            IF i > Len(st.ss) THEN st
            ELSE IF st.ss[i].label + 1 # crew_id THEN Loop(st, i + 1)
            ELSE IF st.ss[i].attempted_today_truck THEN Loop(st, i + 1)
            ELSE IF st.ss[i].truck_t_since_last_LDAR < st.ss[i].truck_min_int
                 THEN [st EXCEPT !.hour23 = TRUE]                    \* break
            ELSE IF st.ss[i].surveys_done_this_year_truck >= st.ss[i].truck_RS
                 THEN Loop(st, i + 1)
            ELSE IF ~dd[st.ss[i].facility_ID]
                 THEN Loop([st EXCEPT !.ss[i].attempted_today_truck = TRUE], i + 1)
            ELSE IF parameters.geography
                 THEN IF ~parameters.route_planning
                      THEN [st EXCEPT                                \* break
                              !.Site_T = Append(@, ScaledWt(Distance(x, st.ss[i].x), speed)),
                              !.found = TRUE, !.pick = i,
                              !.travel_time =
                                  ScaledWt(Distance(x, st.ss[i].x), speed)
                                     \div MinutesPerHour,
                              !.ss[i] = Count(@)]
                      ELSE Loop([st EXCEPT !.Site_T =
                                   Append(@, ScaledWt(Distance(x, st.ss[i].x), speed))],
                                i + 1)
            ELSE [st EXCEPT !.found = TRUE, !.pick = i, !.ss[i] = Count(@)]
        \* site = s_list[j], travel_time = min(Site_T)*60
        Route(st) ==
            IF parameters.route_planning /\ Len(st.Site_T) > 0
            THEN [st EXCEPT !.found = TRUE, !.pick = MinIndex(st.Site_T),
                            !.travel_time = st.Site_T[MinIndex(st.Site_T)],
                            !.ss[MinIndex(st.Site_T)] = Count(@)]
            ELSE st
    IN Route(Loop([ ss |-> TruckSortByNeglect(sites), Site_T |-> << >>,
                    found |-> FALSE, pick |-> 0, travel_time |-> 0,
                    hour23 |-> FALSE ], 1))

\* truck_crew.work_a_day up to the while loop: the clock goes to the start
\* hour; a crew without geography then draws its drive to the first site
TruckStartDay ==
    /\ pc = "truck_start"
    /\ \E off \in TruckOffsiteTimes :
         now' = IF parameters.geography THEN ReplaceHour(now, StartHour)
                ELSE ReplaceHour(now, StartHour) + off
    /\ x_LDAR' = current_x
    /\ crews' = [crews EXCEPT ![ci].worked_today = FALSE]
    /\ pc' = "truck_loop"
    /\ UNCHANGED restVars
    /\ UNCHANGED << t, startDoy, startWeekday, parameters, sites, leaks, tags,
                    active_leaks, ci, allowed_end_time, current_x, dd,
                    timeseries, campaigns, dayLog >>

\* the end of work_a_day: the next crew, or the rest of
\* truck_company.find_leaks
TruckCrewDone ==
    IF ci < parameters.n_crews
    THEN ci' = ci + 1 /\ pc' = "truck_start"
    ELSE ci' = ci /\ pc' = "truck_company_end"

\* one pass of the while loop of truck_crew.work_a_day, visit_site included:
\* the clock moves by the travel time, the survey time and an offsite time
TruckLoop ==
    /\ pc = "truck_loop"
    /\ timeseries.truck_sites_visited[t] < MaxVisits
    /\ IF HourOf(now) < EndHour
       THEN \E speed \in TruckSpeeds, off \in OffsiteTimes :
            LET Pass(cs, now1) ==
                    /\ sites' = cs.ss
                    /\ IF ~cs.found
                       THEN /\ now' = now1
                            /\ current_x' = IF parameters.geography
                                            THEN HomeBaseX ELSE current_x
                            /\ x_LDAR' = IF parameters.geography
                                         THEN HomeBaseX ELSE x_LDAR
                            /\ TruckCrewDone
                            /\ UNCHANGED << crews, timeseries >>
                       ELSE IF parameters.geography
                                 /\ HourOf(now1 + cs.travel_time) > EndHour
                       THEN /\ now' = now1 + cs.travel_time
                            /\ current_x' = HomeBaseX
                            /\ TruckCrewDone
                            /\ UNCHANGED << x_LDAR, crews, timeseries >>
                       ELSE /\ now' = now1 + cs.travel_time
                                        + cs.ss[cs.pick].truck_time + off
                            /\ x_LDAR' = IF parameters.geography
                                         THEN cs.ss[cs.pick].x ELSE x_LDAR
                            /\ timeseries' = [timeseries EXCEPT
                                                !.truck_sites_visited[t] = @ + 1]
                            /\ crews' = [crews EXCEPT ![ci].worked_today = TRUE]
                            /\ UNCHANGED << ci, pc, current_x >>
                Choose(cs) ==
                    Pass(cs, IF cs.hour23 THEN ReplaceHour(now, LastHour) ELSE now)
            IN Choose(truck_crew_choose_site(ci, x_LDAR, speed))
       ELSE /\ TruckCrewDone
            /\ crews' = IF parameters.geography THEN crews
                        ELSE [crews EXCEPT ![ci].worked_today = TRUE]
            /\ UNCHANGED << now, sites, x_LDAR, current_x, timeseries >>
    /\ UNCHANGED restVars
    /\ UNCHANGED << t, startDoy, startWeekday, parameters, leaks, tags,
                    active_leaks, allowed_end_time, dd, campaigns, dayLog >>

\* truck_company.find_leaks after the crews: the method's site variables
TruckCompanyEnd ==
    /\ pc = "truck_company_end"
    /\ sites' = [i \in 1..Len(sites) |->
                   [sites[i] EXCEPT
                      !.truck_t_since_last_LDAR = @ + 1,
                      !.attempted_today_truck = FALSE,
                      !.surveys_done_this_year_truck =
                          IF DayOfMonth(now) = 1 /\ MonthOf(now) = 1 THEN 0 ELSE @]]
    /\ pc' = "next_day"
    /\ UNCHANGED restVars
    /\ UNCHANGED << t, now, startDoy, startWeekday, parameters, leaks, tags,
                    active_leaks, crews, ci, allowed_end_time, x_LDAR, current_x,
                    dd, timeseries, campaigns, dayLog >>

\* TimeCounter.next_day, and the weather of the new day
TruckNextDay ==
    /\ pc = "next_day"
    /\ t + 1 < Timesteps
    /\ t' = t + 1
    /\ now' = now + MinutesPerDay
    /\ dd' \in [SiteIds -> BOOLEAN]
    /\ ci' = 1
    /\ pc' = "truck_start"
    /\ UNCHANGED restVars
    /\ UNCHANGED << startDoy, startWeekday, parameters, sites, leaks, tags,
                    active_leaks, crews, allowed_end_time, x_LDAR, current_x,
                    timeseries, campaigns, dayLog >>

NextTruck ==
    \/ TruckStartDay
    \/ TruckLoop
    \/ TruckCompanyEnd
    \/ TruckNextDay

SpecTruck == InitTruck /\ [][NextTruck]_vars

\* ================================================================ claims
Ids(ls) == 1..Len(ls)
SiteOf(ss, fid) == ss[SiteIndex(ss, fid)]

RECURSIVE IsPrefix(_, _)
IsPrefix(p, q) ==
    IF p = << >> THEN TRUE
    ELSE IF q = << >> THEN FALSE
    ELSE Head(p) = Head(q) /\ IsPrefix(Tail(p), Tail(q))

\* the steps of one daily step of a run, in the order the engine is to run them
ExpectedDay ==
    << "aging", "spawn", "OGI" >>
    \o (IF parameters.consider_operator /\ Weekday(now) = 0
        THEN << "operator" >> ELSE << >>)
    \o << "repair", "report" >>

\* the crews or the operator are at work
Detecting == pc \in {"crew_start", "crew_loop", "operator"}

\* C1: a leak tagged by a method is repaired repair_delay + reporting_delay
\* days after the day it was tagged (repair_delay days for the operator), and
\* its repair_delay field records that number of days.
C1_RepairedOnBoundDay ==
    \A i \in Ids(leaks) :
        leaks[i].status = "repaired" =>
            /\ DateOf(leaks[i].date_repaired) - DateOf(leaks[i].date_tagged)
                 = RepairBound(leaks[i])
            /\ leaks[i].repair_delay = RepairBound(leaks[i])

\* C2: an active leak has no date_repaired; a repaired leak has a tagging
\* date and a date_repaired that is not earlier than it.
C2_LeakStatusDates ==
    \A i \in Ids(leaks) :
        /\ leaks[i].status \in {"active", "repaired"}
        /\ leaks[i].status = "active" => leaks[i].date_repaired = NoDate
        /\ leaks[i].status = "repaired" =>
              /\ leaks[i].date_tagged # NoDate
              /\ leaks[i].date_repaired # NoDate
              /\ leaks[i].date_repaired >= leaks[i].date_tagged

C2_Witness ==
    \E i \in Ids(leaks) :
        /\ leaks[i].status = "repaired"
        /\ leaks[i].date_repaired > leaks[i].date_tagged
        /\ \E j \in Ids(leaks) : leaks[j].status = "active" /\ leaks[j].tagged

\* C3: repaired is terminal: no step turns a repaired leak active again or
\* changes its date_repaired, repair_delay or days_active.
C3_RepairedIsTerminal ==
    [][\A i \in Ids(leaks) :
          leaks[i].status = "repaired" =>
             /\ i \in Ids(leaks')
             /\ leaks'[i].status = "repaired"
             /\ leaks'[i].date_repaired = leaks[i].date_repaired
             /\ leaks'[i].repair_delay = leaks[i].repair_delay
             /\ leaks'[i].days_active = leaks[i].days_active]_vars

\* a leak repaired on an earlier day has gone through aging, a survey of its
\* site and the next day's sweep is about to run
C3_Witness ==
    /\ pc = "repair_leaks"
    /\ timeseries.OGI_sites_visited[t] > 0
    /\ \E i \in Ids(leaks) :
          /\ leaks[i].status = "repaired"
          /\ DateOf(leaks[i].date_repaired) < DateOf(now)
          /\ \E k \in 1..Len(sites) :
                /\ sites[k].facility_ID = leaks[i].facility_ID
                /\ sites[k].OGI_t_since_last_LDAR = 1

\* C4: for every site, on every day of a run that has not failed,
\* 0 <= surveys_done_this_year <= RS.
C4_SurveysWithinRS ==
    pc # "crashed" =>
        \A k \in 1..Len(sites) :
            /\ 0 <= sites[k].surveys_done_this_year_OGI
            /\ sites[k].surveys_done_this_year_OGI <= sites[k].OGI_RS

\* C5: whenever a survey of a site is counted (surveys_conducted and
\* surveys_done_this_year incremented, t_since_last_LDAR reset) in a run that
\* goes on, the site's t_since_last_LDAR was at least its min_int immediately
\* before.
C5_CountedOnlyWhenRipe ==
    [][\A s \in SiteIds :
          (/\ pc' # "crashed"
           /\ SiteOf(sites', s).OGI_surveys_conducted
                 > SiteOf(sites, s).OGI_surveys_conducted)
          => SiteOf(sites, s).OGI_t_since_last_LDAR
                >= SiteOf(sites, s).OGI_min_int]_vars

RECURSIVE SumLeakEmissions(_)
SumLeakEmissions(ls) ==
    IF ls = << >> THEN 0
    ELSE Head(ls).days_active * Head(ls).rate + SumLeakEmissions(Tail(ls))

RECURSIVE SumSiteEmissions(_)
SumSiteEmissions(ss) ==
    IF ss = << >> THEN 0
    ELSE Head(ss).total_emissions_kg + SumSiteEmissions(Tail(ss))

\* each leak's emission is on the total of the site whose facility_ID it carries
AttributedToOwnSite ==
    \A k \in 1..Len(sites) :
        sites[k].total_emissions_kg =
            SumLeakEmissions(FilterLeaks(leaks, sites[k].facility_ID))

\* C7, as stated: at finalize the sum over the leaks of days_active x rate
\* equals the sum over the sites of total_emissions_kg.
C7_EmissionsAttributed ==
    pc = "done" => SumLeakEmissions(leaks) = SumSiteEmissions(sites)

\* C7, amended: at finalize of a run that writes its data, the sum over the
\* leaks of days_active x rate equals the sum over the sites of
\* total_emissions_kg, each leak's emission being on its own site's total.
C7_EmissionsAttributedIfWritten ==
    (pc = "done" /\ parameters.write_data) =>
        /\ SumLeakEmissions(leaks) = SumSiteEmissions(sites)
        /\ AttributedToOwnSite

C7_Witness ==
    /\ pc = "done"
    /\ parameters.write_data
    /\ \A k \in 1..Len(sites) : sites[k].total_emissions_kg > 0
    /\ \E k \in 1..Len(sites) : sites[k].total_emissions_kg > 1

\* the cost recorded up to day d
RECURSIVE CumulativeCost(_)
CumulativeCost(d) ==
    IF d < 0 THEN 0 ELSE timeseries.total_daily_cost[d] + CumulativeCost(d - 1)

\* C8: the cum_repaired_leaks timeseries is non-decreasing over the days, and
\* so is the cumulative cost.
C8_Monotone ==
    /\ \A d \in 1..(Len(timeseries.cum_repaired_leaks) - 1) :
          timeseries.cum_repaired_leaks[d] <= timeseries.cum_repaired_leaks[d + 1]
    /\ \A d \in 0..(Timesteps - 2) : CumulativeCost(d) <= CumulativeCost(d + 1)

C8_Witness ==
    /\ Len(timeseries.cum_repaired_leaks) = Timesteps
    /\ timeseries.cum_repaired_leaks[1] < timeseries.cum_repaired_leaks[2]
    /\ timeseries.cum_repaired_leaks[2] = timeseries.cum_repaired_leaks[Timesteps]
    /\ CumulativeCost(0) < CumulativeCost(Timesteps - 1)

\* C9: when a component-scale survey positively detects a leak: an untagged
\* leak becomes tagged with date_tagged the current date, tagged_by_company
\* the detecting method and tagged_by_crew the detecting crew, and is
\* appended to the tag pool; a leak already tagged (by any company) keeps its
\* tagging fields and the detecting method's redund_tags of the day goes up
\* by one.
C9_DetectTagsOrCountsRedundant ==
    [][Len(dayLog') = Len(dayLog) + 1 =>
         LET survey == dayLog'[Len(dayLog')]
             crew == crews[survey.crew]
             detected == {i \in LeaksPresent(survey.facility_ID) :
                             leaks[i].rate > parameters.MDL}
             fresh == {i \in detected : ~leaks[i].tagged}
         IN /\ \A i \in fresh :
                  /\ leaks'[i].tagged
                  /\ leaks'[i].date_tagged = now
                  /\ leaks'[i].tagged_by_company = crew.company
                  /\ leaks'[i].tagged_by_crew = crew.id
            /\ tags' = tags \o SetToSeq(fresh)
            /\ \A i \in detected \ fresh :
                  /\ leaks'[i].tagged
                  /\ leaks'[i].date_tagged = leaks[i].date_tagged
                  /\ leaks'[i].tagged_by_company = leaks[i].tagged_by_company
                  /\ leaks'[i].tagged_by_crew = leaks[i].tagged_by_crew
            /\ timeseries'[RedundKey(crew.company)][t] =
                  timeseries[RedundKey(crew.company)][t]
                    + Cardinality(detected \ fresh)]_vars

\* C10, as stated: date_repaired is written only by the repair sweep, and
\* tagged, date_tagged and tagged_by_company only by the company whose
\* detection discovers the leak.
C10_OnlyDetectionWritesTag ==
    [][\A i \in Ids(leaks) :
          /\ leaks'[i].date_repaired # leaks[i].date_repaired
                => pc = "repair_leaks"
          /\ (\/ leaks'[i].tagged # leaks[i].tagged
              \/ leaks'[i].date_tagged # leaks[i].date_tagged
              \/ leaks'[i].tagged_by_company # leaks[i].tagged_by_company)
                => /\ Detecting
                   /\ ~leaks[i].tagged
                   /\ leaks'[i].tagged]_vars

\* C10, amended: date_repaired is written only by the repair sweep; tagged is
\* set only by the actor whose detection discovers the leak, which then also
\* writes date_tagged and tagged_by_company, and tagged is cleared only by the
\* repair sweep as it repairs the leak; nothing else writes these fields.
C10_TagWrittenByDetectionAndSweep ==
    [][\A i \in Ids(leaks) :
          /\ leaks'[i].date_repaired # leaks[i].date_repaired
                => pc = "repair_leaks"
          /\ (\/ leaks'[i].date_tagged # leaks[i].date_tagged
              \/ leaks'[i].tagged_by_company # leaks[i].tagged_by_company)
                => /\ Detecting
                   /\ ~leaks[i].tagged
                   /\ leaks'[i].tagged
          /\ (~leaks[i].tagged /\ leaks'[i].tagged)
                => /\ Detecting
                   /\ leaks'[i].tagged_by_company =
                         IF pc = "operator" THEN "operator" ELSE "OGI"
          /\ (leaks[i].tagged /\ ~leaks'[i].tagged)
                => /\ pc = "repair_leaks"
                   /\ leaks'[i].status = "repaired"]_vars

\* a leak the OGI crew tagged and a leak the operator tagged have both been
\* repaired by the sweep
C10_Witness ==
    /\ \E i \in Ids(leaks) :
          /\ leaks[i].status = "repaired" /\ ~leaks[i].tagged
          /\ leaks[i].tagged_by_company = "OGI"
    /\ \E i \in Ids(leaks) :
          /\ leaks[i].status = "repaired" /\ ~leaks[i].tagged
          /\ leaks[i].tagged_by_company = "operator"

\* ----------------------------------------------------------- flagging claims
\* the list the flagging ranks, as [facility_ID, effective_site_rate]: the
\* site_watchlist, and for truck_company the day's candidate_flags (its crews
\* hand in only the results above the threshold)
Watched ==
    IF parameters.flag_sites = "truck_company"
    THEN [i \in 1..Len(companies.candidate_flags) |->
            [ facility_ID |-> companies.candidate_flags[i].site,
              effective_site_rate |-> companies.candidate_flags[i].site_measured_rate ]]
    ELSE [i \in 1..Len(companies.site_watchlist) |->
            [ facility_ID |-> companies.site_watchlist[i].facility_ID,
              effective_site_rate |-> companies.site_watchlist[i].effective_site_rate ]]

NFlag == CeilMul(Len(Watched), parameters.follow_up_ratio)

\* the sites the day's flag loop ran on
Chosen == {dayLog[j] : j \in 1..Len(dayLog)}

\* C11: once a screening company has flagged for the day, the sites chosen
\* are n_flag = ceil(|watchlist| * follow_up_ratio) sites of the watchlist,
\* none of them with a lower effective_site_rate than a site left out, and
\* only they are flagged today or counted as redundant flags.
C11_TopNFlagged ==
    (pc \in {"flagged", "crashed"} /\ companies.candidate_flags # << >>) =>
        /\ Len(dayLog) = NFlag
        /\ Cardinality(Chosen) = NFlag
        /\ \A i, j \in 1..Len(Watched) :
             (Watched[i].facility_ID \in Chosen /\ Watched[j].facility_ID \notin Chosen)
                => Watched[i].effective_site_rate >= Watched[j].effective_site_rate
        /\ Chosen \subseteq {Watched[i].facility_ID : i \in 1..Len(Watched)}
        /\ timeseries.eff_flags[t] + timeseries.flags_redund1[t] = NFlag
        /\ \A k \in 1..Len(sites) :
             (sites[k].date_flagged # NoDate /\ DateOf(sites[k].date_flagged) = t)
                => sites[k].facility_ID \in Chosen

FollowUpVisits == {i \in 1..Len(dayLog) : dayLog[i].method = "OGI_FU"}

\* C13: every site the follow-up method surveys is currently_flagged at the
\* moment of the survey and was flagged at least reporting_delay days before
\* (the reporting_delay of the method that flagged it); a site whose flag is
\* younger or already cleared is not surveyed by the follow-up method.
C13_FollowUpOnlyDueFlags ==
    \A i \in FollowUpVisits :
        /\ dayLog[i].currently_flagged
        /\ dayLog[i].date_flagged # NoDate
        /\ DateOf(dayLog[i].clock) - DateOf(dayLog[i].date_flagged)
              >= parameters.reporting_delay

\* C14: the follow-up method's completed component-scale survey of a site
\* takes the site's currently_flagged down and the site is not in the
\* follow-up pool (state['flags']) after it; on a day on which the follow-up
\* survey of a site is only started and rolled over, the flag of the site
\* stays as it was
C14_FlagResetByFollowUp ==
    [][ LET \* the sites the follow-up crews surveyed to the end in the step
            Surveyed ==
                {dayLog'[i].facility_ID :
                    i \in {j \in 1..Len(dayLog') :
                             j > Len(dayLog) /\ dayLog'[j].method = "OGI_FU"}}
            \* the sites whose follow-up survey the step started and rolled over
            RolledOver ==
                {crews'["OGI_FU"][c].rollover.site :
                    c \in {d \in DOMAIN crews["OGI_FU"] :
                             /\ crews'["OGI_FU"][d].rollover # << >>
                             /\ crews'["OGI_FU"][d].rollover # crews["OGI_FU"][d].rollover}}
        IN (pc = "OGI_FU" /\ pc' = "next_day") =>
              /\ \A fid \in Surveyed :
                    /\ ~sites'[SiteIndex(sites', fid)].currently_flagged
                    /\ \A i \in 1..Len(flags') : flags'[i] # fid
              /\ \A fid \in RolledOver \ Surveyed :
                    sites'[SiteIndex(sites', fid)].currently_flagged
                      = sites[SiteIndex(sites, fid)].currently_flagged ]_vars

\* a follow-up survey of a flagged site has been completed today: the flag is
\* down and the site has left the follow-up pool
C14_Witness ==
    /\ pc = "next_day"
    /\ \E i \in FollowUpVisits :
          /\ dayLog[i].currently_flagged
          /\ ~sites[SiteIndex(sites, dayLog[i].facility_ID)].currently_flagged
          /\ \A j \in 1..Len(flags) : flags[j] # dayLog[i].facility_ID

\* the sites the method's crews surveyed today
SurveyedToday(name) ==
    {dayLog[i].facility_ID : i \in {j \in 1..Len(dayLog) : dayLog[j].method = name}}

\* C15: with two sites A (1) and B (2), min_int = DeployMinInt, RS = 2 and one
\* crew that takes the most neglected due site, the surveys happen on day 1 at
\* A, day 2 at B, day 1 + min_int at A and day 2 + min_int at B, and on no
\* other day (day 1 is timestep 0)
C15_MinIntervalSchedule ==
    ( /\ pc \in {"OGI_FU", "next_day"}
      /\ parameters.n_crews = 1
      /\ parameters.min_int = DeployMinInt
      /\ parameters.RS = 2
      /\ \A k \in 1..Len(sites) : sites[k].m["OGI"].time = ShortSurvey )
    => SurveyedToday("OGI") =
          IF t = 0 \/ t = DeployMinInt THEN {1}
          ELSE IF t = 1 \/ t = DeployMinInt + 1 THEN {2}
          ELSE {}

\* C16: a mobile crew that starts its day holding a rollover (site,
\* remaining_mins) surveys that site first, before any other site of its pool,
\* and spends the travel plus the remaining minutes on it, not the site's full
\* survey time: the first visit of the day is the rollover's site and the
\* day ends after travel, remaining minutes and travel home
C16_RolloverFirst ==
    [][ ( /\ pc \in DeployMethods
          /\ parameters.n_crews = 1
          /\ crews[pc][1].rollover # << >> )
        => /\ pc' # "crashed"
           /\ Len(dayLog') > Len(dayLog)
           /\ dayLog'[Len(dayLog) + 1].method = pc
           /\ dayLog'[Len(dayLog) + 1].facility_ID = crews[pc][1].rollover.site
           /\ now' = ReplaceHour(now, StartHour) + TravelMins
                        + crews[pc][1].rollover.remaining_mins + TravelMins ]_vars

\* C17: a crew holding the rollover of a site whose survey did not fit the
\* day goes on with it on its next working day without failing: either the
\* rollover is kept for the same site with strictly fewer remaining minutes,
\* or the survey completes, the rollover is cleared and the site is visited
\* and counted exactly once
C17_RolloverProgress ==
    [][ \A name \in DeployMethods :
          ( /\ pc = name
            /\ parameters.n_crews = 1
            /\ crews[name][1].rollover # << >> )
          => LET ro == crews[name][1].rollover
                 k == SiteIndex(sites, ro.site)
             IN /\ pc' # "crashed"
                /\ \/ /\ crews'[name][1].rollover # << >>
                      /\ crews'[name][1].rollover.site = ro.site
                      /\ crews'[name][1].rollover.remaining_mins < ro.remaining_mins
                      /\ sites'[k].m[name].surveys_conducted
                            = sites[k].m[name].surveys_conducted
                   \/ /\ crews'[name][1].rollover = << >>
                      /\ sites'[k].m[name].surveys_conducted
                            = sites[k].m[name].surveys_conducted + 1 ]_vars

C20_RegenerateSites ==
    /\ \A k \in 1..Len(dayLog) :
          (pc = "built" /\ parameters.pregenerate_leaks /\ ~dayLog[k].cached) =>
             LET program == dayLog[k].program
                 prog_0_sites == dayLog[k].prog_0_sites
                 out_sites == simulations[k].sites
             IN /\ Len(out_sites) = Len(prog_0_sites)
                /\ \A n \in 1..Len(out_sites) :
                      /\ out_sites[n].facility_ID = prog_0_sites[n].facility_ID
                      /\ out_sites[n].cum_leaks = prog_0_sites[n].cum_leaks
                      /\ out_sites[n].initial_leaks = prog_0_sites[n].initial_leaks
                      /\ out_sites[n].leak_rate_units = prog_0_sites[n].leak_rate_units
                      /\ [f \in DOMAIN out_sites[n]
                               \ {"cum_leaks", "initial_leaks", "leak_rate_units"} |->
                            out_sites[n][f]]
                            = InfrastructureRow(program, prog_0_sites[n].facility_ID)
                /\ regenerate_sites(program, out_sites) = out_sites
    /\ \A p \in {q \in (1..Len(simulations)) \X (1..Len(simulations)) :
                  /\ simulations[q[1]].pregenerate_leaks
                  /\ simulations[q[1]].i = simulations[q[2]].i} :
          /\ Len(simulations[p[1]].sites) = Len(simulations[p[2]].sites)
          /\ \A n \in 1..Len(simulations[p[1]].sites) :
                \A f \in {"facility_ID", "cum_leaks", "initial_leaks", "leak_rate_units"} :
                    simulations[p[1]].sites[n][f] = simulations[p[2]].sites[n][f]

\* the sites of the second program have been regenerated from shuffled sites
\* of the first with leaks: the order is kept, the site level parameter differs
C20_Witness ==
    /\ pc = "built"
    /\ parameters.pregenerate_leaks
    /\ \E k \in 1..Len(dayLog) :
          /\ dayLog[k].program = 1
          /\ ~dayLog[k].cached
          /\ dayLog[k].prog_0_sites[1].facility_ID = 2
          /\ simulations[k].sites[1].facility_ID = 2
          /\ simulations[k].sites[1].cum_leaks > 1
          /\ simulations[k].sites[1].OGI_RS # dayLog[k].prog_0_sites[1].OGI_RS

C22_WorkerFailureSurvived ==
    [][ ( /\ pc = "pool"
          /\ pc' # "pool"
          /\ \E k \in DOMAIN pool : pool[k] = "raised" )
        => /\ pc' = "report"
           /\ \A k \in DOMAIN pool :
                \/ /\ pool'[k] = "result"
                   /\ k \in DOMAIN res'
                   /\ res'[k].program = simulations[k].program
                \/ /\ pool'[k] = "raised"
                   /\ k \in DOMAIN res'
                   /\ res'[k].program = simulations[k].program
                   /\ "failure" \in DOMAIN res'[k] ]_vars


\* C23 as stated: a pregen file that is being written has one writer, the
\* writer holds an exclusive lock on it, and nothing else has the file open
C23_ExclusiveLockedWrites ==
    \A a \in open_files :
       a.mode = "wb" =>
          /\ a.lock
          /\ \A b \in open_files : b.file = a.file => b = a

\* C23: every write of a pregen file is made by the orchestrator inside
\* build_sims, before the pool is started: while a file is written it is the
\* only open cache file and no worker has started, so no worker reads a cache
\* file that is being written.  The exclusion comes from this order; open()
\* takes no lock
C23_WritesBeforePool ==
    /\ \A a \in open_files :
          a.process = 0 =>
             /\ pc = "build"
             /\ open_files = {a}
             /\ \A k \in DOMAIN pool : pool[k] = "queued"
    /\ \A a \in open_files :
          a.mode = "wb" => a.process = 0 /\ ~a.lock

\* a pregen file is being written while the folder holds other pregen files
\* and simulations of the batch are already built
C23_Witness ==
    /\ \E a \in open_files : a.mode = "wb" /\ a.process = 0
    /\ Len(simulations) >= 1
    /\ \E f \in DOMAIN gen_files : gen_files[f] # << >>


\* ------------------------------------------------------------ rerun claims
\* C24: two runs on the same inputs go through the same states: the daily
\* weather prepared by the second run is that of the first run, whatever the
\* wall clock shows at the time of each run
C24_SameInputsSameWorld ==
    Len(timeseries) = 2 => timeseries[1].u10 = timeseries[2].u10


\* ------------------------------------------------------- single call claims
\* C25: a cell of the grid returned by deployment_days is true exactly when
\* the temperature of the cell and day lies in [min_temp, max_temp], its wind
\* speed in [min_wind, max_wind] and its precipitation in
\* [min_precip, max_precip], each on its own variable, with the envelope of
\* the method's configuration
C25_DeploymentDayEnvelope ==
    (pc = "returned" /\ parameters.call = "deployment_days") =>
       LET m == parameters.method
       IN \A lon \in 1..GridLon :
            dd[<< lon, 1, 1 >>] <=>
               /\ (IF m.min_temp # 0 THEN m.min_temp ELSE 0) <= parameters.temps[1][1][lon]
               /\ parameters.temps[1][1][lon] <= (IF m.min_temp # 0 THEN 100 ELSE 0)
               /\ 0 <= parameters.winds[1][1][lon]
               /\ parameters.winds[1][1][lon] <= (IF m.max_wind # 0 THEN m.max_wind ELSE 0)
               /\ (IF m.max_precip # 0 THEN -10 ELSE 0) <= parameters.precip[1][1][lon]
               /\ parameters.precip[1][1][lon] <= (IF m.max_precip # 0 THEN m.max_precip ELSE 0)


\* C26: on a day whose work hours are infeasible (24 or more, 0 or less) the
\* condition is printed and the day goes on with the window of max_workday
\* hours (a max_workday that is itself feasible): no error is raised and the
\* window is not the one of an earlier day
C26_InfeasibleHoursUseMaxWorkday ==
    [][ ( /\ pc = "call"
          /\ parameters.call = "get_work_hours"
          /\ t' = t + 1
          /\ parameters.config.max_workday \in 1..(4 * HoursPerDay - 1)
          /\ (crews'.work_hours >= 4 * HoursPerDay \/ crews'.work_hours <= 0) )
        => /\ crews'.printed
           /\ pc' # "crashed"
           /\ crews'.window # << >>
           /\ crews'.window.end_hour - crews'.window.start_hour
                 = parameters.config.max_workday ]_vars


\* C27: a method with n_crews = 0 never surveys and raises no error: every
\* deploy_crews of the method runs to its end (where prop_sites_avail of the
\* day is recorded) and leaves sites_visited of every day at 0
C27_NoCrewsNoSurveys ==
    [][ (pc \in DeployMethods /\ parameters.n_crews = 0)
        => /\ pc' # "crashed"
           /\ \A d \in 0..(DeployDays - 1) :
                 timeseries'.sites_visited[pc][d] = 0 ]_vars


\* C28: in the program that parse_parameters installs, every key of the
\* default program that the parameter file does not supply has its default
\* value, also a sub-key of a dictionary (operator) of which the file gives
\* only some sub-keys, and every key or sub-key the file supplies has the
\* file's value
C28_MergeKeepsDefaults ==
    ( /\ pc = "returned"
      /\ parameters.call = "parse_parameters"
      /\ parameters.new_parameters.items["parameter_level"].value = "program"
      \* the supplied values have the types of their defaults
      /\ \A m \in dayLog[1].printed : m[1] # "Parameter type mismatch" )
    => LET default == default_program_parameters.items
           new == parameters.new_parameters.items
           program == dayLog[1].programs[1].items
           Merged(d, n, p) ==
               /\ \A k \in DOMAIN n : k \in DOMAIN p
               /\ \A k \in DOMAIN d :
                    /\ k \in DOMAIN p
                    /\ k \notin DOMAIN n => p[k] = d[k]
                    /\ (k \in DOMAIN n /\ d[k].type # "dict") => p[k] = n[k]
       IN /\ Len(dayLog[1].programs) = 1
          /\ Merged(default, new, program)
          /\ \A k \in DOMAIN default :
                (default[k].type = "dict" /\ k \in DOMAIN new /\ new[k].type = "dict")
                => Merged(default[k].items, new[k].items, program[k].items)


\* C29: parse_parameters stops the program (sys.exit, before anything is
\* built) exactly when a supplied value has another type than its default or
\* the parameter_level is none of global, program and method; a key that no
\* default has is only printed
C29_ValidationFatal ==
    ( /\ pc \in {"returned", "exit"}
      /\ parameters.call = "parse_parameters" )
    => LET default == default_program_parameters.items
           new == parameters.new_parameters.items
           level == new["parameter_level"].value
           Mismatch(d, n) ==
               \E k \in DOMAIN n \cap DOMAIN d : n[k].type # d[k].type
           mismatch ==
               /\ level = "program"
               /\ \/ Mismatch(default, new)
                  \/ \E k \in DOMAIN new \cap DOMAIN default :
                        /\ new[k].type = "dict"
                        /\ default[k].type = "dict"
                        /\ Mismatch(default[k].items, new[k].items)
       IN /\ dayLog[1].exit <=>
                (mismatch \/ level \notin {"global", "program", "method"})
          /\ pc = "exit" <=> dayLog[1].exit
          /\ (level = "program" /\ "repair_colour" \in DOMAIN new /\ ~mismatch)
                => /\ ~dayLog[1].exit
                   /\ << "key not in default parameters", "repair_colour" >>
                         \in dayLog[1].printed


\* C30: check_visit_time does not go to the site, with no time on site, when
\* travel_to or travel_to + travel_home reaches the minutes left; otherwise
\* it goes, with the full survey and nothing remaining when travel_to + survey
\* fits and with (minutes left - travel_to) on site when it does not; always
\* LDAR_mins_onsite + remaining_mins = survey_mins and remaining_mins >= 0,
\* and when it goes travel_to + LDAR_mins_onsite is within the minutes left
C30_CheckVisitTime ==
    (pc = "returned" /\ parameters.call = "check_visit_time") =>
       LET plan == dayLog[1]
           survey == parameters.survey_mins
           to == parameters.travel_to_mins
           home == parameters.travel_home_mins
           left == parameters.allowed_end_time - parameters.current_date
       IN /\ IF to >= left \/ to + home >= left
             THEN ~plan.go_to_site /\ plan.LDAR_mins_onsite = 0
             ELSE /\ plan.go_to_site
                  /\ IF to + survey <= left
                     THEN plan.LDAR_mins_onsite = survey /\ plan.remaining_mins = 0
                     ELSE plan.LDAR_mins_onsite = left - to
          /\ plan.LDAR_mins_onsite + plan.remaining_mins = survey
          /\ plan.remaining_mins >= 0
          /\ plan.go_to_site => to + plan.LDAR_mins_onsite <= left

\* a survey that is started and does not fit: part of it remains
C30_Witness ==
    /\ pc = "returned"
    /\ parameters.call = "check_visit_time"
    /\ dayLog[1].go_to_site
    /\ dayLog[1].remaining_mins > 0
    /\ dayLog[1].LDAR_mins_onsite > 0
    /\ parameters.travel_home_mins > 0


\* ------------------------------------------------------ crew pool claims
\* C31: when a method deploys, get_crew_site_list splits the pool of due
\* sites among the working crews that get_working_crews returns: every due
\* site is in the list of exactly one working crew, in the order of the pool,
\* with and without route planning
C31_PoolDividedAmongCrews ==
    (pc \in DeployMethods /\ parameters.n_crews > 0) =>
       LET \* the sites of list keep the order they have in site_pool
           InOrder(list, site_pool) ==
               \A a, b \in DOMAIN list :
                  a < b => \E i, j \in DOMAIN site_pool :
                              /\ i < j
                              /\ site_pool[i].facility_ID = list[a].facility_ID
                              /\ site_pool[j].facility_ID = list[b].facility_ID
           Divided(site_pool, n_working_crews) ==
               /\ \A i \in 1..Len(site_pool) :
                     Cardinality(
                        {idx \in 0..(n_working_crews - 1) :
                            \E j \in DOMAIN get_crew_site_list(site_pool, idx, n_working_crews) :
                               get_crew_site_list(site_pool, idx, n_working_crews)[j].facility_ID
                                  = site_pool[i].facility_ID}) = 1
               /\ \A idx \in 0..(n_working_crews - 1) :
                     InOrder(get_crew_site_list(site_pool, idx, n_working_crews),
                             site_pool)
           Pool(site_pool) ==
               Divided(site_pool, get_working_crews(Len(site_pool), parameters.n_crews))
       IN Pool(get_due_sites(pc,
                  IF IsFollowUp(pc)
                  THEN [i \in 1..Len(flags) |-> sites[SiteIndex(sites, flags[i])]]
                  ELSE sites,
                  now))


\* C32: for feasible work hours (the daylight hours when consider_daylight is
\* set and they are at most max_workday, else max_workday) the window starts
\* at (24 - work_hours) / 2 and ends work_hours later, and the window used for
\* scheduling, from the start of work to allowed_end_time, is exactly
\* work_hours long and not longer than max_workday, also for work hours that
\* are not whole.  Hours are in quarters of an hour
C32_WindowCentredAndExact ==
    [][ ( /\ pc = "call"
          /\ parameters.call = "get_work_hours"
          /\ t' = t + 1
          /\ crews'.work_hours > 0
          /\ crews'.work_hours < 4 * HoursPerDay )
        => LET config == parameters.config
               c == crews'
           IN /\ c.work_hours =
                    IF config.consider_daylight /\ c.daylight_hours <= config.max_workday
                    THEN c.daylight_hours ELSE config.max_workday
              /\ 2 * c.window.start_hour = 4 * HoursPerDay - c.work_hours
              /\ c.window.end_hour = c.window.start_hour + c.work_hours
              /\ 4 * (c.allowed_end_time - c.start_of_work) = c.work_hours
              /\ 4 * (c.allowed_end_time - c.start_of_work) <= config.max_workday ]_vars


\* C33: a site on the watchlist with more than one measurement has as its
\* effective_site_rate the last measurement under the filter 'recent', the
\* largest under 'max' and the mean of all of them under 'mean'
C33_EffectiveSiteRate ==
    (parameters.call = "flag_sites" /\ pc \in {"returned", "crashed"}) =>
       \A i \in 1..Len(companies.site_watchlist) :
          LET entry == companies.site_watchlist[i]
              rates == entry.site_measured_rates
          IN Len(rates) > 1 =>
                IF parameters.redundancy_filter = "recent"
                THEN entry.effective_site_rate = rates[Len(rates)]
                ELSE IF parameters.redundancy_filter = "max"
                THEN /\ \A j \in 1..Len(rates) : rates[j] <= entry.effective_site_rate
                     /\ \E j \in 1..Len(rates) : rates[j] = entry.effective_site_rate
                ELSE Len(rates) * entry.effective_site_rate = SumSeq(rates)


\* C34: the daily_emissions_kg value appended for a day is the sum of the
\* rates of the leaks whose status is active when the report is assembled
\* (after the day's new leaks and the repair sweep), and the n_tags value is
\* the size of the tag pool at that moment
C34_ReportOfTheDay ==
    pc = "next_day" =>
        /\ timeseries.daily_emissions_kg[Len(timeseries.daily_emissions_kg)]
             = SumRates({i \in 1..Len(leaks) : leaks[i].status = "active"})
        /\ timeseries.n_tags[Len(timeseries.n_tags)] = Len(tags)


\* C35: within one day a mobile crew keeps adding sites to its itinerary
\* while time remains in the work window: the itinerary of start_day ends
\* only when no site left in the crew's list can be reached in the time that
\* remains after the planned visits, and no site is in the itinerary twice
C35_ItineraryFilled ==
    (pc \in DeployMethods /\ parameters.n_crews > 0) =>
       LET Planned(Plan_list) == {Plan_list[i].site : i \in 1..Len(Plan_list)}
           RECURSIVE Mins(_)
           Mins(Plan_list) == IF Plan_list = << >> THEN 0
                              ELSE Head(Plan_list).LDAR_mins + Mins(Tail(Plan_list))
           Reachable(site, rollover, clock, aet) ==
               LET Ok(site_plan) == site_plan.kind = "plan" /\ site_plan.go_to_site
               IN Ok(plan_visit(pc, rollover, site, clock, aet))
           Filled(list, day, clock, aet) ==
               (~day.raised /\ day.Plan_list # << >>
                  /\ day.Plan_list[Len(day.Plan_list)].remaining_mins = 0) =>
                  /\ Cardinality(Planned(day.Plan_list)) = Len(day.Plan_list)
                  /\ \A i \in 1..Len(list) :
                        list[i].facility_ID \notin Planned(day.Plan_list) =>
                           ~Reachable(list[i], day.rollover,
                                      clock + Mins(day.Plan_list), aet)
           Crew(list, rollover, clock, aet) ==
               list # << >> =>
                  Filled(list, start_day(pc, rollover, list, clock, aet), clock, aet)
           Pool(site_pool) ==
               Crew(get_crew_site_list(site_pool, 0,
                       get_working_crews(Len(site_pool), parameters.n_crews)),
                    crews[pc][1].rollover,
                    ReplaceHour(now, StartHour), ReplaceHourMin0(now, EndHour))
       IN Pool(get_due_sites(pc,
                  IF IsFollowUp(pc)
                  THEN [i \in 1..Len(flags) |-> sites[SiteIndex(sites, flags[i])]]
                  ELSE sites,
                  now))


\* C36: with route planning, the site that choose_site returns and counts is
\* a site that passed every test of the call (assigned to the crew, not
\* attempted today, ripe, under its yearly quota, deployable weather) and
\* has the least travel time among the sites of the call that passed them
C36_NearestEligibleChosen ==
    (pc = "crew_loop" /\ parameters.geography /\ parameters.route_planning
       /\ HourOf(now) < EndHour) =>
       \A speed \in Speeds :
          LET Passes(site) ==
                  /\ site.label + 1 = ci
                  /\ ~site.attempted_today
                  /\ site.OGI_t_since_last_LDAR >= site.OGI_min_int
                  /\ site.surveys_done_this_year_OGI < site.OGI_RS
                  /\ dd[site.cell]
              Wt(site) == ScaledWt(Distance(x_LDAR, site.x), speed)
              Nearest(before, n_seen, pick) ==
                  /\ Passes(before[pick])
                  /\ \A i \in 1..n_seen :
                        Passes(before[i]) => Wt(before[pick]) <= Wt(before[i])
              ChosenSite(before, cs) ==
                  cs.found =>
                     /\ Nearest(before, cs.n_seen, cs.pick)
                     /\ \A i \in 1..Len(before) :
                           cs.ss[i].OGI_surveys_conducted
                              > before[i].OGI_surveys_conducted => i = cs.pick
          IN ChosenSite(SortByNeglect(sites), choose_site(ci, x_LDAR, speed))


\* C37: at the start of every daily step the calendar date of the clock is
\* start_date + current_timestep days: what the crews do to the time of day
\* never carries the clock past midnight
C37_DateInLockStep ==
    (pc = "update_state" \/ (pc = "truck_start" /\ ci = 1)) => DateOf(now) = t


\* C39: the surveys of a site counted for a survey method within one
\* calendar year never exceed the site's RS of that method, the surveys of
\* 1 January included.  The runs start on 1 January, so until the year ends
\* the surveys of the year are the site's surveys_conducted
C39_YearlyQuota ==
    (startDoy = 0 /\ t < YearLen) =>
       \A k \in 1..Len(sites) :
          \A name \in {n \in DeployMethods : ~IsFollowUp(n)} :
             sites[k].m[name].surveys_conducted <= sites[k].m[name].RS


====
